---------------------------- MODULE Spec2Model ----------------------------
(***************************************************************************)
(* A model of capo (konflux-ci/capo): the Containerfile parser             *)
(* (pkg/containerfile), the provenance resolver and the pullspec resolver  *)
(* (pkg/scan.go in its latest revision).                                   *)
(*                                                                         *)
(* Paths are sequences of one-character strings, so that Go's string       *)
(* prefix test and the lexical path functions of path/filepath are         *)
(* computed character by character.  Aliases and pullspecs are strings:    *)
(* the code only compares them for equality.                               *)
(***************************************************************************)
EXTENDS Integers, Sequences, FiniteSets, TLC

VARIABLES
    recipe,             \* the Containerfile handed to Parse: a sequence of instructions
    opts,               \* containerfile.BuildOptions: [Args, Target]
    store,              \* the containers store: pullspec -> digest of the image found
    pc,                 \* position of main and Scan: "start", "parsed", "stored",
                        \* "resolved", "sourced"; "failed" (an error is returned),
                        \* "crashed" (the process dies)
    stages,             \* []containerfile.Stage returned by Parse
    err,                \* error kind returned so far ("" is nil)
    resolvedPullspecs,  \* map[string]string returned by resolvePullspecs
    pkgSources,         \* []packageSource returned by getPackageSources
    call,               \* the arguments of a function that is run on its own
    ret                 \* what that function has returned so far

vars == <<recipe, opts, store, pc, stages, err, resolvedPullspecs, pkgSources,
          call, ret>>

-----------------------------------------------------------------------------
(* Go strings and path/filepath, on sequences of characters *)

\* strings.HasPrefix(s, prefix)
HasPrefix(s, prefix) ==
    /\ Len(prefix) <= Len(s)
    /\ SubSeq(s, 1, Len(prefix)) = prefix

\* strings.HasSuffix(s, suffix)
HasSuffix(s, suffix) ==
    /\ Len(suffix) <= Len(s)
    /\ SubSeq(s, Len(s) - Len(suffix) + 1, Len(s)) = suffix

\* filepath.IsAbs on Unix
IsAbs(path) == HasPrefix(path, <<"/">>)

\* index of the last separator of path, 0 when there is none
LastSlash(path) ==
    LET idx == {i \in DOMAIN path : path[i] = "/"}
    IN  IF idx = {} THEN 0 ELSE CHOOSE i \in idx : \A j \in idx : j <= i

\* filepath.Split: the file part, everything after the final separator
SplitFile(path) == SubSeq(path, LastSlash(path) + 1, Len(path))

\* the elements of path between separators (empty elements included)
RECURSIVE Elements(_)
Elements(path) ==
    LET idx == {i \in DOMAIN path : path[i] = "/"}
    IN  IF idx = {} THEN <<path>>
        ELSE LET i == CHOOSE k \in idx : \A j \in idx : k <= j
             IN  <<SubSeq(path, 1, i - 1)>> \o Elements(SubSeq(path, i + 1, Len(path)))

\* filepath.Clean, the element stack: "." and empty elements are dropped, ".."
\* removes the element before it, is dropped at the root and kept otherwise
RECURSIVE CleanElements(_, _, _)
CleanElements(elems, out, rooted) ==
    IF elems = <<>> THEN out
    ELSE LET e    == Head(elems)
             rest == Tail(elems)
         IN  IF e = <<>> \/ e = <<".">> THEN CleanElements(rest, out, rooted)
             ELSE IF e = <<".", ".">>
                  THEN IF out # <<>> /\ out[Len(out)] # <<".", ".">>
                       THEN CleanElements(rest, SubSeq(out, 1, Len(out) - 1), rooted)
                       ELSE IF rooted THEN CleanElements(rest, out, rooted)
                       ELSE CleanElements(rest, Append(out, e), rooted)
                  ELSE CleanElements(rest, Append(out, e), rooted)

RECURSIVE JoinElements(_)
JoinElements(elems) ==
    IF elems = <<>> THEN <<>>
    ELSE IF Len(elems) = 1 THEN elems[1]
    ELSE elems[1] \o <<"/">> \o JoinElements(Tail(elems))

\* filepath.Clean
Clean(path) ==
    LET rooted == IsAbs(path)
        out    == JoinElements(CleanElements(Elements(path), <<>>, rooted))
    IN  IF rooted THEN <<"/">> \o out
        ELSE IF out = <<>> THEN <<".">> ELSE out

\* filepath.Join(a, b): empty elements are ignored, the rest joined and cleaned
Join(a, b) ==
    IF a = <<>> /\ b = <<>> THEN <<>>
    ELSE IF a = <<>> THEN Clean(b)
    ELSE IF b = <<>> THEN Clean(a)
    ELSE Clean(a \o <<"/">> \o b)

-----------------------------------------------------------------------------
(* The recipe: instructions as the dockerfile parser hands them over *)

FinalStage == ""

CopyTypeBuilder == "Builder"
CopyTypeExternal == "External"

ErrTargetNotFound == "TargetNotFound"
ErrAmbiguousRelativePath == "AmbiguousRelativePath"
ErrPullspecResolve == "PullspecResolve"

\* a word of the recipe: a literal, or a reference ${s} to a build argument
Lit(s) == [var |-> FALSE, s |-> s]
Ref(v) == [var |-> TRUE, s |-> v]

\* ARG name=default
ArgInstr(name, default) ==
    [cmd |-> "arg", word |-> Lit(default), name |-> name, flags |-> <<>>,
     args |-> <<>>]
\* FROM image [AS name]; name "" when the stage is unnamed
FromInstr(image, name) ==
    [cmd |-> "from", word |-> image, name |-> name, flags |-> <<>>, args |-> <<>>]
\* WORKDIR path
WorkdirInstr(path) ==
    [cmd |-> "workdir", word |-> Lit(""), name |-> "", flags |-> <<>>,
     args |-> <<path>>]
\* COPY [flags] sources... destination
CopyInstr(flags, args) ==
    [cmd |-> "copy", word |-> Lit(""), name |-> "", flags |-> flags, args |-> args]

\* a flag of an instruction: --key=val
Flag(key, val) == [key |-> key, val |-> val]


-----------------------------------------------------------------------------
(* imagebuilder, as Parse uses it *)

\* the ARG instructions that precede the first FROM
RECURSIVE HeadingLen(_)
HeadingLen(instrs) ==
    IF instrs # <<>> /\ instrs[1].cmd = "arg" THEN 1 + HeadingLen(Tail(instrs))
    ELSE 0

\* Builder.HeadingArgs merged with Builder.Args (the user's build arguments):
\* a build argument given by the user replaces the default of a heading ARG
BuilderEnv(instrs, args) ==
    LET n       == HeadingLen(instrs)
        heading == {instrs[i].name : i \in 1..n}
        default(k) ==
            LET i == CHOOSE j \in 1..n :
                        /\ instrs[j].name = k
                        /\ \A l \in 1..n : instrs[l].name = k => l <= j
            IN  instrs[i].word.s
    IN  [k \in heading \cup DOMAIN args |->
            IF k \in DOMAIN args THEN args[k] ELSE default(k)]

\* imagebuilder.ProcessWord: a reference to an unset argument expands to ""
ProcessWord(word, env) ==
    IF word.var
    THEN IF word.s \in DOMAIN env THEN env[word.s] ELSE ""
    ELSE word.s

\* imagebuilder.NewStages: one stage per FROM, holding the instructions up to
\* the next FROM; an unnamed stage is named by its position, counted from 0
NewStages(instrs) ==
    LET body  == SubSeq(instrs, HeadingLen(instrs) + 1, Len(instrs))
        froms == {i \in DOMAIN body : body[i].cmd = "from"}
        nth(k) == CHOOSE i \in froms : Cardinality({j \in froms : j < i}) = k - 1
        last(k) == IF k = Cardinality(froms) THEN Len(body) ELSE nth(k + 1) - 1
    IN  [k \in 1..Cardinality(froms) |->
            [Position |-> k - 1,
             Name     |-> IF body[nth(k)].name = "" THEN ToString(k - 1)
                          ELSE body[nth(k)].name,
             Children |-> SubSeq(body, nth(k), last(k))]]

\* ThroughTarget that stops before the named stage
ThroughTargetBefore(rawStages, name) ==
    LET byName == {i \in DOMAIN rawStages : rawStages[i].Name = name}
        byPos  == {i \in DOMAIN rawStages : ToString(i - 1) = name}
        first(S) == CHOOSE i \in S : \A j \in S : i <= j
    IN  IF byName # {} THEN SubSeq(rawStages, 1, first(byName) - 1)
        ELSE IF byPos # {} THEN SubSeq(rawStages, 1, first(byPos) - 1)
        ELSE <<>>

\* Stages.ThroughTarget: the stages up to the first one named name, else up to
\* the one at position name when name is a number; <<>> when there is none
ThroughTarget(rawStages, name) ==
    LET byName == {i \in DOMAIN rawStages : rawStages[i].Name = name}
        byPos  == {i \in DOMAIN rawStages : ToString(i - 1) = name}
        first(S) == CHOOSE i \in S : \A j \in S : i <= j
    IN  IF byName # {} THEN SubSeq(rawStages, 1, first(byName))
        ELSE IF byPos # {} THEN SubSeq(rawStages, 1, first(byPos))
        ELSE <<>>

-----------------------------------------------------------------------------
(* pkg/containerfile *)

\* mapAliasesToPullspecs: the final stage is skipped; of two stages with the
\* same name the later one's base image stays in the map
mapAliasesToPullspecs(rawStages, env) ==
    LET n     == Len(rawStages) - 1
        names == {rawStages[i].Name : i \in 1..n}
        lastOf(a) == CHOOSE i \in 1..n :
                        /\ rawStages[i].Name = a
                        /\ \A j \in 1..n : rawStages[j].Name = a => j <= i
    IN  [a \in names |-> ProcessWord(rawStages[lastOf(a)].Children[1].word, env)]

\* the destination with the trailing separator added at the root as well
ResolveDestinationSlashAtRoot(destination, workdir) ==
    IF IsAbs(destination) THEN destination
    ELSE LET destFile  == SplitFile(destination)
             destIsDir == destFile = <<>> \/ destFile = <<".", ".">> \/ destFile = <<".">>
             joined    == Join(workdir, destination)
         IN  IF destIsDir THEN joined \o <<"/">> ELSE joined

\* parseCopy, the destination: an absolute one is kept; a relative one is
\* joined to the working directory, with a trailing separator when it names
\* a directory and the result is not the root
ResolveDestination(destination, workdir) ==
    IF IsAbs(destination) THEN destination
    ELSE LET destFile  == SplitFile(destination)
             destIsDir == destFile = <<>> \/ destFile = <<".", ".">> \/ destFile = <<".">>
             joined    == Join(workdir, destination)
         IN  IF destIsDir /\ joined # <<"/">> THEN joined \o <<"/">> ELSE joined

\* slices.Contains
Contains(seq, x) == \E i \in DOMAIN seq : seq[i] = x

\* parseCopy that resolves the destination before it looks for the --from flag
parseCopyDestinationFirst(node, workdir, env, stageNames) ==
    LET fromFlags == {i \in DOMAIN node.flags : node.flags[i].key = "from"}
        none == [Sources |-> <<>>, Destination |-> <<>>, From |-> "",
                 Type |-> CopyTypeBuilder]
        args == node.args
        destination == args[Len(args)]
    IN  IF ~IsAbs(destination) /\ workdir = <<>>
        THEN [err |-> ErrAmbiguousRelativePath, has |-> FALSE, cp |-> none]
        ELSE IF fromFlags = {} THEN [err |-> "", has |-> FALSE, cp |-> none]
        ELSE LET fl   == node.flags[CHOOSE i \in fromFlags : \A j \in fromFlags : i <= j]
                 from == ProcessWord(fl.val, env)
             IN  [err |-> "", has |-> TRUE,
                  cp  |-> [Sources     |-> SubSeq(args, 1, Len(args) - 1),
                           Destination |-> ResolveDestination(destination, workdir),
                           From        |-> from,
                           Type        |-> IF Contains(stageNames, from)
                                           THEN CopyTypeBuilder
                                           ELSE CopyTypeExternal]]

\* parseCopy: [err, has, cp]; has is FALSE for a COPY without a --from flag
\* (the (nil, nil) return)
parseCopy(node, workdir, env, stageNames) ==
    LET fromFlags == {i \in DOMAIN node.flags : node.flags[i].key = "from"}
        none == [Sources |-> <<>>, Destination |-> <<>>, From |-> "",
                 Type |-> CopyTypeBuilder]
    IN  IF fromFlags = {} THEN [err |-> "", has |-> FALSE, cp |-> none]
        ELSE LET fl   == node.flags[CHOOSE i \in fromFlags : \A j \in fromFlags : i <= j]
                 from == ProcessWord(fl.val, env)
                 args == node.args
                 sources     == SubSeq(args, 1, Len(args) - 1)
                 destination == args[Len(args)]
             IN  IF ~IsAbs(destination) /\ workdir = <<>>
                 THEN [err |-> ErrAmbiguousRelativePath, has |-> FALSE, cp |-> none]
                 ELSE [err |-> "", has |-> TRUE,
                       cp  |-> [Sources     |-> sources,
                                Destination |-> ResolveDestination(destination, workdir),
                                From        |-> from,
                                Type        |-> IF Contains(stageNames, from)
                                                THEN CopyTypeBuilder
                                                ELSE CopyTypeExternal]]

\* getBuilderCopiesInStage, the loop over the stage's instructions from the
\* i-th on: [err, copies]
RECURSIVE BuilderCopiesFrom(_, _, _, _, _, _)
BuilderCopiesFrom(children, i, workdir, copies, env, stageNames) ==
    IF i > Len(children) THEN [err |-> "", copies |-> copies]
    ELSE LET child == children[i]
         IN  IF child.cmd = "workdir"
             THEN LET dirPath == child.args[1]
                  IN  IF IsAbs(dirPath)
                      THEN BuilderCopiesFrom(children, i + 1, dirPath, copies, env, stageNames)
                      ELSE IF workdir = <<>>
                      THEN [err |-> ErrAmbiguousRelativePath, copies |-> copies]
                      ELSE BuilderCopiesFrom(children, i + 1, Join(workdir, dirPath),
                                             copies, env, stageNames)
             ELSE IF child.cmd = "copy"
             THEN LET r == parseCopy(child, workdir, env, stageNames)
                  IN  IF r.err # "" THEN [err |-> r.err, copies |-> copies]
                      ELSE BuilderCopiesFrom(children, i + 1, workdir,
                                             IF r.has THEN Append(copies, r.cp) ELSE copies,
                                             env, stageNames)
             ELSE BuilderCopiesFrom(children, i + 1, workdir, copies, env, stageNames)

\* getBuilderCopiesInStage that starts in the root directory
getBuilderCopiesInStageAtRoot(s, stageNames, env) ==
    BuilderCopiesFrom(s.Children, 1, <<"/">>, <<>>, env, stageNames)

\* getBuilderCopiesInStage
getBuilderCopiesInStage(s, stageNames, env) ==
    BuilderCopiesFrom(s.Children, 1, <<>>, <<>>, env, stageNames)

\* the names Parse hands to getBuilderCopiesInStage for the i-th stage
StageNamesAt(rawStages, i) == [j \in 1..i |-> rawStages[j].Name]

\* Parse that leaves the last stage its name
StageAliasKeepName(rawStages, i) == rawStages[i].Name

\* the alias Parse gives the i-th of the retained stages
StageAlias(rawStages, i) ==
    IF i = Len(rawStages) THEN FinalStage ELSE rawStages[i].Name

\* Parse, the loop over the retained stages from the i-th on: [err, stages]
RECURSIVE ParseStagesFrom(_, _, _, _, _)
ParseStagesFrom(rawStages, i, res, aliasToPullspec, env) ==
    IF i > Len(rawStages) THEN [err |-> "", stages |-> res]
    ELSE LET alias == StageAlias(rawStages, i)
             r == getBuilderCopiesInStage(rawStages[i], StageNamesAt(rawStages, i), env)
         IN  IF r.err # "" THEN [err |-> r.err, stages |-> res]
             ELSE ParseStagesFrom(rawStages, i + 1,
                    Append(res, [Alias    |-> alias,
                                 Pullspec |-> IF alias \in DOMAIN aliasToPullspec
                                              THEN aliasToPullspec[alias] ELSE "",
                                 Copies   |-> r.copies]),
                    aliasToPullspec, env)

\* the stages Parse retains: all of them, or those through the target
RetainedStages(instrs, o) ==
    IF o.Target # "" THEN ThroughTarget(NewStages(instrs), o.Target)
    ELSE NewStages(instrs)

\* Parse: [err, stages]
ParseResult(instrs, o) ==
    LET env       == BuilderEnv(instrs, o.Args)
        rawStages == RetainedStages(instrs, o)
    IN  IF rawStages = <<>> THEN [err |-> ErrTargetNotFound, stages |-> <<>>]
        ELSE ParseStagesFrom(rawStages, 1, <<>>,
                             mapAliasesToPullspecs(rawStages, env), env)

-----------------------------------------------------------------------------
(* pkg/scan.go: the pullspec resolver *)

\* reference.WithDigest(...).String()
WithDigest(name, digest) == name \o "@" \o digest

\* the repositories and the image digests of the model
Repositories == {"f", "g", "h", "e"}
ImageDigests == {"sha256:f", "sha256:g", "sha256:h", "sha256:e"}

\* reference.ParseNamed and reference.TrimNamed: the repository name of a
\* pullspec, which is a repository with the tag 1 or with a digest; only
\* canonical names parse
RepositoryOf ==
    [r \in {n \o ":1" : n \in Repositories}
            \cup {WithDigest(n, d) : n \in Repositories, d \in ImageDigests} |->
        CHOOSE n \in Repositories :
            r = n \o ":1" \/ \E d \in ImageDigests : r = WithDigest(n, d)]

\* resolvePullspec without reference.TrimNamed: the tag stays
resolvePullspecUntrimmed(st, pullspec) ==
    IF pullspec \notin DOMAIN st \/ pullspec \notin DOMAIN RepositoryOf
    THEN [err |-> ErrPullspecResolve, resolved |-> ""]
    ELSE [err |-> "", resolved |-> WithDigest(pullspec, st[pullspec])]

\* resolvePullspec: [err, resolved]
resolvePullspec(st, pullspec) ==
    IF pullspec \notin DOMAIN st \/ pullspec \notin DOMAIN RepositoryOf
    THEN [err |-> ErrPullspecResolve, resolved |-> ""]
    ELSE [err |-> "", resolved |-> WithDigest(RepositoryOf[pullspec], st[pullspec])]

\* res[key] = val on a Go map
MapPut(res, key, val) ==
    [k \in DOMAIN res \cup {key} |-> IF k = key THEN val ELSE res[k]]

\* resolvePullspecs, the loop over the copies of stage i from the c-th on
RECURSIVE ResolveCopiesFrom(_, _, _, _, _)
ResolveCopiesFrom(st, stgs, i, c, res) ==
    IF c > Len(stgs[i].Copies) THEN [err |-> "", res |-> res]
    ELSE LET cp == stgs[i].Copies[c]
         IN  IF cp.Type = CopyTypeBuilder
             THEN ResolveCopiesFrom(st, stgs, i, c + 1, res)
             ELSE LET r == resolvePullspec(st, cp.From)
                  IN  IF r.err # "" THEN [err |-> r.err, res |-> <<>>]
                      ELSE ResolveCopiesFrom(st, stgs, i, c + 1,
                                             MapPut(res, cp.From, r.resolved))

\* resolvePullspecs, the loop over the non-final stages from the i-th on
RECURSIVE ResolveStagesFrom(_, _, _, _)
ResolveStagesFrom(st, stgs, i, res) ==
    IF i > Len(stgs) - 1 THEN [err |-> "", res |-> res]
    ELSE LET base == IF stgs[i].Pullspec \in DOMAIN res
                     THEN [err |-> "", resolved |-> res[stgs[i].Pullspec]]
                     ELSE resolvePullspec(st, stgs[i].Pullspec)
         IN  IF base.err # "" THEN [err |-> base.err, res |-> <<>>]
             ELSE LET r == ResolveCopiesFrom(st, stgs, i, 1,
                                             MapPut(res, stgs[i].Pullspec, base.resolved))
                  IN  IF r.err # "" THEN r
                      ELSE ResolveStagesFrom(st, stgs, i + 1, r.res)

\* resolvePullspecs that drops the error of a failed resolution
resolvePullspecsIgnoringErrors(st, stgs) ==
    [err |-> "", res |-> ResolveStagesFrom(st, stgs, 1, <<>>).res]

\* resolvePullspecs: [err, res]
resolvePullspecs(st, stgs) == ResolveStagesFrom(st, stgs, 1, <<>>)

-----------------------------------------------------------------------------
(* pkg/scan.go: the provenance resolver *)

\* a stage pointer is the index of the stage in the slice; 0 is the nil pointer
NilStage == 0

\* aliasToStage[alias]: the last non-final stage of that alias, nil when
\* the map has no such key
AliasToStage(stgs, alias) ==
    LET S == {i \in 1..(Len(stgs) - 1) : stgs[i].Alias = alias}
    IN  IF S = {} THEN NilStage ELSE CHOOSE i \in S : \A j \in S : j <= i

\* traceSource, line 276: the copy's destination begins with the source
DestinationMatches(cp, source) == HasPrefix(cp.Destination, source)

\* traceSource with the test of foundAncestor inverted
AttributedHereWhenFound(source, foundAncestor) ==
    HasSuffix(source, <<"/">>) \/ foundAncestor

\* traceSource, line 289: the source is added to the current stage
AttributedHere(source, foundAncestor) ==
    HasSuffix(source, <<"/">>) \/ ~foundAncestor

\* an append that leaves out a source the stage already has
AppendToOnce(acc, stage, source) ==
    IF Contains(acc[stage], source) THEN acc
    ELSE [acc EXCEPT ![stage] = Append(@, source)]

\* acc[stage] = append(acc[stage], source)
AppendTo(acc, stage, source) ==
    [acc EXCEPT ![stage] = Append(@, source)]

\* traceSource: [status, acc].  status is "ok" when the call returns, "nil"
\* when it dereferences a nil stage pointer, "overflow" when it calls itself
\* with the arguments of a call that is still active (the recursion never
\* ends, the goroutine stack overflows).
\* TraceCopies is its loop over the copies of the stage (the c-th copy, its
\* s-th source): [status, found, acc]
RECURSIVE traceSource(_, _, _, _, _)
RECURSIVE TraceCopies(_, _, _, _, _, _, _, _)
traceSource(stgs, source, currStage, acc, active) ==
    IF currStage = NilStage THEN [status |-> "nil", acc |-> acc]
    ELSE IF <<source, currStage>> \in active THEN [status |-> "overflow", acc |-> acc]
    ELSE LET r == TraceCopies(stgs, source, currStage, 1, 1, FALSE, acc,
                              active \cup {<<source, currStage>>})
         IN  IF r.status # "ok" THEN [status |-> r.status, acc |-> r.acc]
             ELSE IF AttributedHere(source, r.found)
             THEN [status |-> "ok", acc |-> AppendTo(r.acc, currStage, source)]
             ELSE [status |-> "ok", acc |-> r.acc]

TraceCopies(stgs, source, currStage, c, s, found, acc, active) ==
    LET copies == stgs[currStage].Copies
    IN  IF c > Len(copies) THEN [status |-> "ok", found |-> found, acc |-> acc]
        ELSE IF ~DestinationMatches(copies[c], source)
        THEN TraceCopies(stgs, source, currStage, c + 1, 1, found, acc, active)
        ELSE IF s > Len(copies[c].Sources)
        THEN TraceCopies(stgs, source, currStage, c + 1, 1, TRUE, acc, active)
        ELSE LET r == traceSource(stgs, copies[c].Sources[s],
                                  AliasToStage(stgs, copies[c].From), acc, active)
             IN  IF r.status # "ok"
                 THEN [status |-> r.status, found |-> TRUE, acc |-> r.acc]
                 ELSE TraceCopies(stgs, source, currStage, c, s + 1, TRUE, r.acc, active)

\* getPackageSources, lines 201-216, the loop over the copies of the final
\* stage (the c-th copy, its s-th source): [status, acc, externals].
\* externals lists the keys &external of stageToSources in the order they are
\* made: every pass through the else branch takes the address of a new
\* variable, so every pass adds a key of its own.
RECURSIVE TraceFinalCopies(_, _, _, _, _)
TraceFinalCopies(stgs, c, s, acc, externals) ==
    LET copies == stgs[Len(stgs)].Copies
    IN  IF c > Len(copies)
        THEN [status |-> "ok", acc |-> acc, externals |-> externals]
        ELSE IF s > Len(copies[c].Sources)
        THEN TraceFinalCopies(stgs, c + 1, 1, acc, externals)
        ELSE IF AliasToStage(stgs, copies[c].From) # NilStage
        THEN LET r == traceSource(stgs, copies[c].Sources[s],
                                  AliasToStage(stgs, copies[c].From), acc, {})
             IN  IF r.status # "ok"
                 THEN [status |-> r.status, acc |-> r.acc, externals |-> externals]
                 ELSE TraceFinalCopies(stgs, c, s + 1, r.acc, externals)
        ELSE TraceFinalCopies(stgs, c, s + 1, acc,
                 Append(externals, [Alias    |-> "",
                                    Pullspec |-> copies[c].From,
                                    sources  |-> <<copies[c].Sources[s]>>]))

\* stageToSources after the loop over the final stage's copies
StageToSources(stgs) ==
    TraceFinalCopies(stgs, 1, 1, [i \in 1..(Len(stgs) - 1) |-> <<>>], <<>>)

\* a packageSource
PackageSource(alias, pullspec, digestPullspec, sources) ==
    [alias |-> alias, pullspec |-> pullspec, digestPullspec |-> digestPullspec,
     sources |-> sources]

\* getPackageSources, lines 218-239: the builder package sources
BuilderSources(stgs, resolved, acc) ==
    [i \in 1..(Len(stgs) - 1) |->
        PackageSource(stgs[i].Alias, stgs[i].Pullspec,
                      IF stgs[i].Pullspec \in DOMAIN resolved
                      THEN resolved[stgs[i].Pullspec] ELSE "",
                      acc[i])]

\* getPackageSources, lines 241-255: the external package sources, in the
\* order the keys were made
ExternalSources(resolved, externals) ==
    [k \in DOMAIN externals |->
        PackageSource(externals[k].Alias, externals[k].Pullspec,
                      IF externals[k].Pullspec \in DOMAIN resolved
                      THEN resolved[externals[k].Pullspec] ELSE "",
                      externals[k].sources)]

\* getPackageSources: [status, err, builders, externals].  status is "ok",
\* "error" (a pullspec has no resolved form), or the crash of traceSource.
\* The result is builders followed by externals in the order of Go's map
\* iteration, which the caller of this operator chooses.
getPackageSources(stgs, resolved) ==
    LET t == StageToSources(stgs)
        unresolved ==
            \/ \E i \in 1..(Len(stgs) - 1) : stgs[i].Pullspec \notin DOMAIN resolved
            \/ \E k \in DOMAIN t.externals : t.externals[k].Pullspec \notin DOMAIN resolved
    IN  IF t.status # "ok"
        THEN [status |-> t.status, err |-> "", builders |-> <<>>, externals |-> <<>>]
        ELSE IF unresolved
        THEN [status |-> "error", err |-> ErrPullspecResolve,
              builders |-> <<>>, externals |-> <<>>]
        ELSE [status |-> "ok", err |-> "",
              builders  |-> BuilderSources(stgs, resolved, t.acc),
              externals |-> ExternalSources(resolved, t.externals)]

\* the orders in which Go may iterate over a map of n keys
Orders(n) == {f \in [1..n -> 1..n] : \A i, j \in 1..n : f[i] = f[j] => i = j}

-----------------------------------------------------------------------------
(* pkg/content.go: the mask inclusion test *)

\* includes, the path with the leading separator it is given when it has none
WithLeadingSeparator(path) ==
    IF ~HasPrefix(path, <<"/">>) THEN <<"/">> \o path ELSE path

\* includes(sources, path)
includes(sources, path) ==
    \E n \in DOMAIN sources : HasPrefix(WithLeadingSeparator(path), sources[n])

-----------------------------------------------------------------------------
(* pkg/content.go: extraction into the staging directories *)

ErrImageNotFound == "Could not find image"

\* what extraction writes is a set of entries [origin, at]: origin is the
\* path of the entry relative to the image root, at is its path relative to
\* the staging directory

\* saveDiff: the entries of the layer diff (tar header names) that are
\* written to dest
saveDiff(diffNames, sources) ==
    {[origin |-> WithLeadingSeparator(name), at |-> Join(<<"/">>, name)] :
        name \in {d \in diffNames : includes(sources, d)}}

\* os.Stat in the mounted image: full is a directory when some file of the
\* image lies beneath it
IsDirIn(files, full) ==
    \E f \in files : f # full /\ HasPrefix(f, IF full = <<"/">> THEN full ELSE full \o <<"/">>)

\* os.CopyFS(contentPath, os.DirFS(full)): the files beneath full, written at
\* their path relative to full
CopyFS(files, full) ==
    LET dir == IF full = <<"/">> THEN full ELSE full \o <<"/">>
    IN  {[origin |-> f, at |-> <<"/">> \o SubSeq(f, Len(dir) + 1, Len(f))] :
            f \in {g \in files : g # full /\ HasPrefix(g, dir)}}

\* getImageContent: for every mask entry that exists in the mounted image, a
\* directory is copied with os.CopyFS and a regular file with copyFile
getImageContent(files, sources) ==
    UNION {LET full == Join(<<"/">>, sources[n])
           IN  IF IsDirIn(files, full) THEN CopyFS(files, full)
               ELSE IF full \in files
               THEN {[origin |-> full, at |-> Join(<<"/">>, sources[n])]}
               ELSE {} :
           n \in DOMAIN sources}

\* getContent: [err, intermediate, builder], the entries written to the
\* intermediate and to the builder staging directory.  found says whether
\* store.Lookup finds the image, diffNames is the diff of the last
\* intermediate layer (empty when there is none), files the regular files of
\* the image.
getContent(found, diffNames, files, sources) ==
    IF ~found THEN [err |-> ErrImageNotFound, intermediate |-> {}, builder |-> {}]
    ELSE [err |-> "", intermediate |-> saveDiff(diffNames, sources),
          builder |-> getImageContent(files, sources)]

-----------------------------------------------------------------------------
(* pkg/content.go: the layer locator *)

\* storage.ErrLayerUnknown
ErrLayerUnknown == "layer not known"

\* a layer store st is [layers, images]: layers maps a layer ID to the ID of
\* its parent ("" when it has none), images is the sequence store.Images()
\* returns, each image [Names, TopLayer] (TopLayer is "" when the image has no
\* layer).  store.Layer(id) fails when no layer has that ID.
LayerKnown(st, id) == id \in DOMAIN st.layers

\* getIntermediateLayers, the walk from layerId up the parents: "yes" when it
\* meets the builder layer, "no" when it runs out of parents, "err" when
\* store.Layer fails
RECURSIVE ReachesBuilder(_, _, _)
ReachesBuilder(st, layerId, builderLayer) ==
    IF layerId = "" THEN "no"
    ELSE IF layerId = builderLayer THEN "yes"
    ELSE IF ~LayerKnown(st, layerId) THEN "err"
    ELSE ReachesBuilder(st, st.layers[layerId], builderLayer)

\* getIntermediateLayers, the loop over the images from the i-th on:
\* [err, candidates]
RECURSIVE IntermediateLayersFrom(_, _, _, _)
IntermediateLayersFrom(st, builderLayer, i, candidates) ==
    IF i > Len(st.images) THEN [err |-> "", candidates |-> candidates]
    ELSE LET img == st.images[i]
         IN  IF Len(img.Names) # 0
             THEN IntermediateLayersFrom(st, builderLayer, i + 1, candidates)
             ELSE IF img.TopLayer = builderLayer
             THEN IntermediateLayersFrom(st, builderLayer, i + 1, candidates)
             ELSE IF ~LayerKnown(st, img.TopLayer)
             THEN [err |-> ErrLayerUnknown, candidates |-> <<>>]
             ELSE LET w == ReachesBuilder(st, img.TopLayer, builderLayer)
                  IN  IF w = "err" THEN [err |-> ErrLayerUnknown, candidates |-> <<>>]
                      ELSE IF w = "yes"
                      THEN IntermediateLayersFrom(st, builderLayer, i + 1,
                                                  Append(candidates, img.TopLayer))
                      ELSE IntermediateLayersFrom(st, builderLayer, i + 1, candidates)

\* getIntermediateLayers: [err, candidates]
getIntermediateLayers(st, builderLayer) ==
    IntermediateLayersFrom(st, builderLayer, 1, <<>>)

\* getLastIntermediateLayer, the depth loop: the number of layers from layerId
\* up to the builder layer; -1 when store.Layer fails
RECURSIVE ChainDepth(_, _, _)
ChainDepth(st, layerId, builderLayer) ==
    IF layerId = "" \/ layerId = builderLayer THEN 0
    ELSE IF ~LayerKnown(st, layerId) THEN -1
    ELSE LET d == ChainDepth(st, st.layers[layerId], builderLayer)
         IN  IF d = -1 THEN -1 ELSE d + 1

\* the loop over the candidates with a candidate of equal depth taking the
\* place of the one chosen before
RECURSIVE LongestChainFromLastOfTies(_, _, _, _, _, _)
LongestChainFromLastOfTies(st, builderLayer, candidates, i, maxDepth, longestChain) ==
    IF i > Len(candidates) THEN [err |-> "", layer |-> longestChain]
    ELSE LET depth == ChainDepth(st, candidates[i], builderLayer)
         IN  IF depth = -1 THEN [err |-> ErrLayerUnknown, layer |-> ""]
             ELSE IF depth >= maxDepth
             THEN LongestChainFromLastOfTies(st, builderLayer, candidates, i + 1, depth,
                                             candidates[i])
             ELSE LongestChainFromLastOfTies(st, builderLayer, candidates, i + 1, maxDepth,
                                             longestChain)

\* getLastIntermediateLayer, the loop over the candidates from the i-th on:
\* [err, layer], layer "" for nil
RECURSIVE LongestChainFrom(_, _, _, _, _, _)
LongestChainFrom(st, builderLayer, candidates, i, maxDepth, longestChain) ==
    IF i > Len(candidates) THEN [err |-> "", layer |-> longestChain]
    ELSE LET depth == ChainDepth(st, candidates[i], builderLayer)
         IN  IF depth = -1 THEN [err |-> ErrLayerUnknown, layer |-> ""]
             ELSE IF depth > maxDepth
             THEN LongestChainFrom(st, builderLayer, candidates, i + 1, depth, candidates[i])
             ELSE LongestChainFrom(st, builderLayer, candidates, i + 1, maxDepth, longestChain)

\* getLastIntermediateLayer that returns the first candidate, whatever its depth
getLastIntermediateLayerFirstCandidate(st, builderLayer) ==
    LET c == getIntermediateLayers(st, builderLayer)
    IN  IF c.err # "" THEN [err |-> c.err, layer |-> ""]
        ELSE IF Len(c.candidates) = 0 THEN [err |-> "", layer |-> ""]
        ELSE [err |-> "", layer |-> c.candidates[1]]

\* getLastIntermediateLayer: [err, layer]
getLastIntermediateLayer(st, builderLayer) ==
    LET c == getIntermediateLayers(st, builderLayer)
    IN  IF c.err # "" THEN [err |-> c.err, layer |-> ""]
        ELSE IF Len(c.candidates) = 0 THEN [err |-> "", layer |-> ""]
        ELSE LongestChainFrom(st, builderLayer, c.candidates, 1, 0, "")

-----------------------------------------------------------------------------
(* scan.go: scanning the package sources *)

ErrIO == "I/O error"
ErrContent == "failed to get content"
ErrSyft == "failed to scan content"
ErrRemove == "failed to remove directory"

\* PackageMetadataItem
PackageMetadataItem(pullspec, alias, purl, originType) ==
    [Pullspec |-> pullspec, StageAlias |-> alias, PackageURL |-> purl,
     OriginType |-> originType]

\* getPackageMetadata with the origin types of the two directories exchanged
getPackageMetadataSwapped(pkgSource, builderPkgs, intermediatePkgs) ==
    [n \in DOMAIN builderPkgs |->
        PackageMetadataItem(pkgSource.digestPullspec, pkgSource.alias,
                            builderPkgs[n], "intermediate")]
    \o
    [n \in DOMAIN intermediatePkgs |->
        PackageMetadataItem(pkgSource.digestPullspec, pkgSource.alias,
                            intermediatePkgs[n], "builder")]

\* getPackageMetadata
getPackageMetadata(pkgSource, builderPkgs, intermediatePkgs) ==
    [n \in DOMAIN builderPkgs |->
        PackageMetadataItem(pkgSource.digestPullspec, pkgSource.alias,
                            builderPkgs[n], "builder")]
    \o
    [n \in DOMAIN intermediatePkgs |->
        PackageMetadataItem(pkgSource.digestPullspec, pkgSource.alias,
                            intermediatePkgs[n], "intermediate")]

\* scanSource, from getContent to the return statement: the values the return
\* statement gives.  o is what the machine does for this source: o.fail names
\* the call that fails ("" for none), o.builderPkgs and o.intermediatePkgs are
\* what syft finds in the two directories.
ScanSourceReturns(pkgSource, o) ==
    IF o.fail = "content" THEN [items |-> <<>>, err |-> ErrContent]
    ELSE IF o.fail = "syft" THEN [items |-> <<>>, err |-> ErrSyft]
    ELSE [items |-> getPackageMetadata(pkgSource, o.builderPkgs, o.intermediatePkgs),
          err |-> ""]

\* scanSource: [items, err].  Outside debug mode the deferred function runs
\* after the return statement has set the results and assigns the result of
\* os.RemoveAll to the named result err.
scanSource(debugMode, pkgSource, o) ==
    IF o.fail = "mkdir" THEN [items |-> <<>>, err |-> ErrIO]
    ELSE LET r == ScanSourceReturns(pkgSource, o)
         IN  IF debugMode THEN r
             ELSE [items |-> r.items,
                   err |-> IF o.removeFails THEN ErrRemove ELSE ""]

\* a call made while the k-th package source is scanned
SourceCall(op, k) == [op |-> op, source |-> k]

\* the calls of scanSource with the two scans made before the extraction
ScanSourceCallsScanFirst(k, o) ==
    IF o.fail = "mkdir" THEN <<>>
    ELSE <<SourceCall("SyftScan intermediate", k), SourceCall("SyftScan builder", k),
           SourceCall("getIntermediateContent", k), SourceCall("getImageContent", k),
           SourceCall("getPackageMetadata", k)>>

\* scanSource and getContent, the calls made for the k-th package source, in
\* order: getContent extracts the intermediate content and then the image
\* content, whatever the source is; then the intermediate and the builder
\* directory are scanned; then the records are made
ScanSourceCalls(k, o) ==
    IF o.fail = "mkdir" THEN <<>>
    ELSE IF o.fail = "content"
    THEN <<SourceCall("getIntermediateContent", k)>>
    ELSE IF o.fail = "syft"
    THEN <<SourceCall("getIntermediateContent", k), SourceCall("getImageContent", k),
           SourceCall("SyftScan intermediate", k)>>
    ELSE <<SourceCall("getIntermediateContent", k), SourceCall("getImageContent", k),
           SourceCall("SyftScan intermediate", k), SourceCall("SyftScan builder", k),
           SourceCall("getPackageMetadata", k)>>

\* Scan, the loop over the package sources from the k-th on:
\* [events, Packages, err]
RECURSIVE ScanFrom(_, _, _, _, _, _)
ScanFrom(debugMode, srcs, outcomes, k, events, packages) ==
    IF k > Len(srcs) THEN [events |-> events, Packages |-> packages, err |-> ""]
    ELSE LET r == scanSource(debugMode, srcs[k], outcomes[k])
             e == events \o ScanSourceCalls(k, outcomes[k])
         IN  IF r.err # "" THEN [events |-> e, Packages |-> <<>>, err |-> r.err]
             ELSE ScanFrom(debugMode, srcs, outcomes, k + 1, e, packages \o r.items)

-----------------------------------------------------------------------------
(* The recipes and build options the parser is run on *)

\* at most MaxStages FROM instructions in a recipe
MaxStages == 3
\* at most MaxBody WORKDIR and COPY instructions in a recipe
MaxBody == 2

\* the one build argument of the recipes: ARG V="e:1" heads every recipe
HeadingArg == ArgInstr("V", "e:1")

\* FROM f:1 AS a, or FROM f:1 (named by its position)
ParseHeaders == {FromInstr(Lit("f:1"), n) : n \in {"", "a"}}

\* WORKDIR /w, WORKDIR r, COPY /s r (from the build context),
\* COPY --from=${V} /s /d and COPY --from=e:1 /s r
ParseBody ==
    {WorkdirInstr(<<"/", "w">>), WorkdirInstr(<<"r">>),
     CopyInstr(<<>>, <<(<<"/", "s">>), (<<"r">>)>>),
     CopyInstr(<<Flag("from", Ref("V"))>>, <<(<<"/", "s">>), (<<"/", "d">>)>>),
     CopyInstr(<<Flag("from", Lit("e:1"))>>, <<(<<"/", "s">>), (<<"r">>)>>)}

\* the stage of every body instruction, in the order of the recipe
NonDecreasing(at) == \A j \in 1..(Len(at) - 1) : at[j] <= at[j + 1]

\* the body instructions of stage i
BodyOf(body, at, i) ==
    LET idx == {j \in DOMAIN body : at[j] = i}
    IN  IF idx = {} THEN <<>>
        ELSE SubSeq(body, CHOOSE j \in idx : \A m \in idx : j <= m,
                          CHOOSE j \in idx : \A m \in idx : m <= j)

\* the recipe of the stages i.. : each header followed by the body of its stage
RECURSIVE Assemble(_, _, _, _)
Assemble(headers, body, at, i) ==
    IF i > Len(headers) THEN <<>>
    ELSE <<headers[i]>> \o BodyOf(body, at, i) \o Assemble(headers, body, at, i + 1)

\* the user gives the build argument V=a, so that ${V} names the stage a; the
\* target is none, a stage name, a stage position, or a name no stage has
ParseOptions ==
    {[Args |-> [v \in {"V"} |-> "a"], Target |-> t] : t \in {"", "a", "1", "zz"}}

-----------------------------------------------------------------------------
(* main: containerfile.Parse *)

Parse ==
    /\ pc = "start"
    /\ LET r == ParseResult(recipe, opts)
       IN  /\ stages' = r.stages
           /\ err' = r.err
           /\ pc' = IF r.err = "" THEN "parsed" ELSE "failed"
    /\ UNCHANGED <<recipe, opts, store, resolvedPullspecs, pkgSources, call, ret>>

ParseInit ==
    /\ \E k \in 1..MaxStages, b \in 0..MaxBody :
         \E headers \in [1..k -> ParseHeaders], body \in [1..b -> ParseBody],
            at \in [1..b -> 1..k] :
            /\ NonDecreasing(at)
            /\ recipe = <<HeadingArg>> \o Assemble(headers, body, at, 1)
    /\ opts \in ParseOptions
    /\ store = <<>>
    /\ pc = "start"
    /\ stages = <<>>
    /\ err = ""
    /\ resolvedPullspecs = <<>>
    /\ pkgSources = <<>>
    /\ call = <<>>
    /\ ret = <<>>

ParseNext == Parse

ParseSpec == ParseInit /\ [][ParseNext]_vars

-----------------------------------------------------------------------------
(* Parse run on recipes that copy to destinations of every shape *)

\* FROM f:1 AS a, then FROM f:1
DestHeaders == <<FromInstr(Lit("f:1"), "a"), FromInstr(Lit("f:1"), "")>>

\* WORKDIR /w, WORKDIR /, WORKDIR r and COPY --from=a /s <destination> with
\* the destinations /d, r, d/, . and ..
DestBody ==
    {WorkdirInstr(<<"/", "w">>), WorkdirInstr(<<"/">>), WorkdirInstr(<<"r">>)}
    \cup
    {CopyInstr(<<Flag("from", Lit("a"))>>, <<(<<"/", "s">>), d>>) :
        d \in { <<"/", "d">>, <<"r">>, <<"d", "/">>, <<".">>, <<".", ".">> }}

ParseDestInit ==
    /\ \E k \in DOMAIN DestHeaders, b \in 0..MaxBody :
         \E body \in [1..b -> DestBody], at \in [1..b -> 1..k] :
            /\ NonDecreasing(at)
            /\ recipe = <<HeadingArg>> \o Assemble(SubSeq(DestHeaders, 1, k), body, at, 1)
    /\ opts = [Args |-> <<>>, Target |-> ""]
    /\ store = <<>>
    /\ pc = "start"
    /\ stages = <<>>
    /\ err = ""
    /\ resolvedPullspecs = <<>>
    /\ pkgSources = <<>>
    /\ call = <<>>
    /\ ret = <<>>

ParseDestSpec == ParseDestInit /\ [][ParseNext]_vars

-----------------------------------------------------------------------------
(* The recipes and stores the scan is run on *)

\* at most MaxCopies COPY instructions in a recipe
MaxCopies == 2

\* the recipes name their builder stages b1, b2, ... on the base images
\* f:1, g:1, ...; the last stage is unnamed
ScanAliases == <<"b1", "b2", "b3">>
ScanImages == <<"f:1", "g:1", "h:1">>

\* the paths of the recipes: a directory, a file in it, a file elsewhere
DirA == <<"/", "a", "/">>
FileAX == <<"/", "a", "/", "x">>
FileY == <<"/", "y">>
\* a wildcard pattern inside the directory /a/
WildA == <<"/", "a", "/", "*">>
\* where the final stage copies to: getPackageSources and traceSource never
\* read the destination of a copy of the final stage
FinalDest == <<"/", "o", "/">>

\* a copy names the first stage, the second stage, or the image e:1
ScanFroms == {"b1", "b2", "e:1"}

\* FROM image AS alias for the i-th of k stages
ScanHeader(i, k) ==
    IF i = k THEN FromInstr(Lit("scratch"), "")
    ELSE FromInstr(Lit(ScanImages[i]), ScanAliases[i])

\* the copies of the i-th of k stages: a builder stage copies the file /y to
\* /a/x or the directory /a/ to /a/; the final stage copies /a/, /a/x, both,
\* or the pattern /a/*
ScanBody(i, k) ==
    IF i = k
    THEN {CopyInstr(<<Flag("from", Lit(f))>>, srcs \o <<FinalDest>>) :
            f \in ScanFroms, srcs \in {<<DirA>>, <<FileAX>>, <<DirA, FileAX>>, <<WildA>>}}
    ELSE {CopyInstr(<<Flag("from", Lit(f))>>, <<sd[1], sd[2]>>) :
            f \in ScanFroms, sd \in {<<FileY, FileAX>>, <<DirA, DirA>>}}

\* the store holds every image of the recipes, or all but e:1, or one more
FullStore ==
    [r \in {"f:1", "g:1", "h:1", "e:1"} |->
        IF r = "f:1" THEN "sha256:f" ELSE IF r = "g:1" THEN "sha256:g"
        ELSE IF r = "h:1" THEN "sha256:h" ELSE "sha256:e"]

\* an image of the store may be tagged b2, which is no canonical reference
StoreChoices ==
    {FullStore,
     [r \in DOMAIN FullStore \ {"e:1"} |-> FullStore[r]],
     [r \in DOMAIN FullStore \cup {"b2"} |-> IF r = "b2" THEN "sha256:h" ELSE FullStore[r]]}

-----------------------------------------------------------------------------
(* Scan *)

ErrNilPointer == "nil pointer dereference"
ErrStackOverflow == "stack overflow"

\* Scan, line 94: SetupStore opens the store the build left behind
SetupStore ==
    /\ pc = "parsed"
    /\ \E st \in StoreChoices : store' = st
    /\ pc' = "stored"
    /\ UNCHANGED <<recipe, opts, stages, err, resolvedPullspecs, pkgSources, call, ret>>

\* Scan, lines 99-102
ResolvePullspecs ==
    /\ pc = "stored"
    /\ LET r == resolvePullspecs(store, stages)
       IN  /\ resolvedPullspecs' = r.res
           /\ err' = r.err
           /\ pc' = IF r.err = "" THEN "resolved" ELSE "failed"
    /\ UNCHANGED <<recipe, opts, store, stages, pkgSources, call, ret>>

\* Scan, lines 104-107
GetPackageSources ==
    /\ pc = "resolved"
    /\ LET r == getPackageSources(stages, resolvedPullspecs)
       IN  /\ \E o \in Orders(Len(r.externals)) :
                pkgSources' = r.builders \o [k \in DOMAIN r.externals |-> r.externals[o[k]]]
           /\ err' = IF r.status = "nil" THEN ErrNilPointer
                     ELSE IF r.status = "overflow" THEN ErrStackOverflow
                     ELSE r.err
           /\ pc' = IF r.status = "ok" THEN "sourced"
                    ELSE IF r.status = "error" THEN "failed"
                    ELSE "crashed"
    /\ UNCHANGED <<recipe, opts, store, stages, resolvedPullspecs, call, ret>>

\* Scan, lines 108-117: the loop over the package sources, run without
\* CAPO_DEBUG.  At most one source meets a failing call (the f-th, none when
\* f is 0); syft finds one package in the builder directory of every source,
\* and the packages found in the intermediate directory of every source.
ScanPackageSources ==
    /\ pc = "sourced"
    /\ \E f \in 0..Len(pkgSources), kind \in {"content", "syft"},
          found \in {<<>>, <<"pkg:q">>} :
         LET outcomes == [k \in DOMAIN pkgSources |->
                            [fail |-> IF k = f THEN kind ELSE "",
                             removeFails |-> FALSE,
                             builderPkgs |-> <<"pkg:p">>,
                             intermediatePkgs |-> found]]
             r == ScanFrom(FALSE, pkgSources, outcomes, 1, <<>>, <<>>)
         IN  /\ ret' = r
             /\ err' = r.err
             /\ pc' = IF r.err = "" THEN "scanned" ELSE "failed"
    /\ UNCHANGED <<recipe, opts, store, stages, resolvedPullspecs, pkgSources, call>>

Init ==
    /\ \E k \in 1..MaxStages, b \in 0..MaxCopies :
         \E body \in [1..b -> UNION {ScanBody(i, k) : i \in 1..k}],
            at \in [1..b -> 1..k] :
            /\ NonDecreasing(at)
            /\ \A j \in 1..b : body[j] \in ScanBody(at[j], k)
            /\ recipe = Assemble([i \in 1..k |-> ScanHeader(i, k)], body, at, 1)
    /\ opts = [Args |-> <<>>, Target |-> ""]
    /\ store = <<>>
    /\ pc = "start"
    /\ stages = <<>>
    /\ err = ""
    /\ resolvedPullspecs = <<>>
    /\ pkgSources = <<>>
    /\ call = <<>>
    /\ ret = <<>>

Next ==
    \/ Parse
    \/ SetupStore
    \/ ResolvePullspecs
    \/ GetPackageSources
    \/ ScanPackageSources

Spec == Init /\ [][Next]_vars

-----------------------------------------------------------------------------
(* resolvePullspec run on its own, and run again on what it returned *)

\* the names an image of the store may have: tags, a name that is not a
\* canonical reference, and digest references
ResolveNames == {"e:1", "f:1", "b2", "e@sha256:e", "e@sha256:f"}

\* the stores: any of the names, each on an image of one of two digests
ResolveStores ==
    UNION {[N -> {"sha256:e", "sha256:f"}] : N \in SUBSET ResolveNames}

ResolveFirst ==
    /\ pc = "resolve"
    /\ ret' = <<resolvePullspec(store, call.pullspec)>>
    /\ pc' = "once"
    /\ UNCHANGED <<recipe, opts, store, stages, err, resolvedPullspecs, pkgSources, call>>

ResolveAgain ==
    /\ pc = "once"
    /\ ret[1].err = ""
    /\ ret' = Append(ret, resolvePullspec(store, ret[1].resolved))
    /\ pc' = "twice"
    /\ UNCHANGED <<recipe, opts, store, stages, err, resolvedPullspecs, pkgSources, call>>

ResolveInit ==
    /\ recipe = <<>>
    /\ opts = [Args |-> <<>>, Target |-> ""]
    /\ store \in ResolveStores
    /\ pc = "resolve"
    /\ stages = <<>>
    /\ err = ""
    /\ resolvedPullspecs = <<>>
    /\ pkgSources = <<>>
    /\ call \in {[pullspec |-> r] : r \in ResolveNames}
    /\ ret = <<>>

ResolveNext ==
    \/ ResolveFirst
    \/ ResolveAgain

ResolveSpec == ResolveInit /\ [][ResolveNext]_vars

-----------------------------------------------------------------------------
(* getLastIntermediateLayer run on its own *)

\* at most MaxLayers layers and MaxImages images in the store
MaxLayers == 3
MaxImages == 2

\* the layer IDs, in the order the layers were made
LayerIDs == [n \in 1..MaxLayers |-> "L" \o ToString(n)]

\* the layers: the parent of a layer, if it has one, was made before it
LayerForests ==
    {f \in [{LayerIDs[n] : n \in 1..MaxLayers} ->
                {""} \cup {LayerIDs[n] : n \in 1..MaxLayers}] :
        \A n \in 1..MaxLayers :
            f[LayerIDs[n]] \in {""} \cup {LayerIDs[m] : m \in 1..(n - 1)}}

\* the images: named or unnamed, on any layer or on none
StoredImages ==
    {[Names |-> ns, TopLayer |-> t] :
        ns \in {<<>>, <<"f:1">>},
        t \in {""} \cup {LayerIDs[n] : n \in 1..MaxLayers}}

GetLastIntermediateLayer ==
    /\ pc = "locate"
    /\ ret' = getLastIntermediateLayer(call.store, call.builderLayer)
    /\ pc' = "located"
    /\ UNCHANGED <<recipe, opts, store, stages, err, resolvedPullspecs, pkgSources, call>>

LayerInit ==
    /\ recipe = <<>>
    /\ opts = [Args |-> <<>>, Target |-> ""]
    /\ store = <<>>
    /\ pc = "locate"
    /\ stages = <<>>
    /\ err = ""
    /\ resolvedPullspecs = <<>>
    /\ pkgSources = <<>>
    /\ \E k \in 0..MaxImages :
       \E imgs \in [1..k -> StoredImages], f \in LayerForests, n \in 1..MaxLayers :
            call = [store |-> [layers |-> f, images |-> imgs],
                    builderLayer |-> LayerIDs[n]]
    /\ ret = <<>>

LayerNext == GetLastIntermediateLayer

LayerSpec == LayerInit /\ [][LayerNext]_vars

-----------------------------------------------------------------------------
(* includes run on its own *)

\* at most MaxMask entries in a mask
MaxMask == 2

\* mask entries: the directory /ab, the same with its separator, the pattern
\* /b/*
MaskEntries ==
    { <<"/", "a", "b">>, <<"/", "a", "b", "/">>, <<"/", "b", "/", "*">> }

\* candidate paths, as the names of a layer diff (no leading separator) and
\* rooted: the directory, a file in it, a shorter and a longer name that share
\* its leading characters, a file of another directory, a file of /b
CandidateNames ==
    { <<"a", "b">>, <<"a", "b", "/", "f">>, <<"a">>, <<"a", "b", "c", "/", "f">>,
      <<"o", "/", "f">>, <<"b", "/", "l">>, <<"b", "/", "*">>, <<"b">> }

CandidatePaths == CandidateNames \cup { <<"/">> \o n : n \in CandidateNames }

Includes ==
    /\ pc = "include"
    /\ ret' = includes(call.sources, call.path)
    /\ pc' = "included"
    /\ UNCHANGED <<recipe, opts, store, stages, err, resolvedPullspecs, pkgSources, call>>

IncludesInit ==
    /\ recipe = <<>>
    /\ opts = [Args |-> <<>>, Target |-> ""]
    /\ store = <<>>
    /\ pc = "include"
    /\ stages = <<>>
    /\ err = ""
    /\ resolvedPullspecs = <<>>
    /\ pkgSources = <<>>
    /\ \E k \in 0..MaxMask :
       \E sources \in [1..k -> MaskEntries], path \in CandidatePaths :
            call = [sources |-> sources, path |-> path]
    /\ ret = <<>>

IncludesNext == Includes

IncludesSpec == IncludesInit /\ [][IncludesNext]_vars

-----------------------------------------------------------------------------
(* The loop of Scan over the package sources *)

\* at most MaxSources package sources
MaxSources == 2

\* a builder package source and an external one
ScannedSources ==
    { PackageSource("b1", "f:1", "f@sha256:f", <<DirA>>),
      PackageSource("", "e:1", "e@sha256:e", <<FileAX>>) }

\* what the machine does while one source is scanned
Outcomes ==
    [fail : {"", "mkdir", "content", "syft"},
     removeFails : BOOLEAN,
     builderPkgs : {<<"pkg:p">>},
     intermediatePkgs : {<<>>, <<"pkg:q">>}]

\* Scan, one pass of the loop: ret.next is the source the loop is at
ScanSource ==
    /\ pc = "scanning"
    /\ ret.next <= Len(pkgSources)
    /\ LET r == scanSource(call.debugMode, pkgSources[ret.next], call.outcomes[ret.next])
       IN  IF r.err # ""
           THEN /\ ret' = [next |-> ret.next, Packages |-> <<>>, err |-> r.err]
                /\ pc' = "scanned"
           ELSE /\ ret' = [next |-> ret.next + 1, Packages |-> ret.Packages \o r.items,
                           err |-> ""]
                /\ pc' = pc
    /\ UNCHANGED <<recipe, opts, store, stages, err, resolvedPullspecs, pkgSources, call>>

\* Scan, the return after the loop
ScanReturn ==
    /\ pc = "scanning"
    /\ ret.next > Len(pkgSources)
    /\ pc' = "scanned"
    /\ UNCHANGED <<recipe, opts, store, stages, err, resolvedPullspecs, pkgSources, call, ret>>

ScanLoopInit ==
    /\ recipe = <<>>
    /\ opts = [Args |-> <<>>, Target |-> ""]
    /\ store = <<>>
    /\ pc = "scanning"
    /\ stages = <<>>
    /\ err = ""
    /\ resolvedPullspecs = <<>>
    /\ \E k \in 0..MaxSources :
       \E srcs \in [1..k -> ScannedSources], os \in [1..k -> Outcomes], d \in BOOLEAN :
            /\ pkgSources = srcs
            /\ call = [debugMode |-> d, outcomes |-> os]
    /\ ret = [next |-> 1, Packages |-> <<>>, err |-> ""]

ScanLoopNext == ScanSource \/ ScanReturn

ScanLoopSpec == ScanLoopInit /\ [][ScanLoopNext]_vars

-----------------------------------------------------------------------------
(* getContent run on its own *)

\* the regular files an image may hold
ImageFiles == { <<"/", "a", "/", "x">>, <<"/", "y">> }

\* the names a layer diff may hold: a directory, a file in it, another file
DiffNames == { <<"a", "/">>, <<"a", "/", "x">>, <<"y">> }

\* the sources a COPY --from may name: a directory, a file, the same file
\* without the leading separator, another file
CopySources ==
    { <<"/", "a", "/">>, <<"/", "a", "/", "x">>, <<"a", "/", "x">>, <<"/", "y">> }

GetContent ==
    /\ pc = "extract"
    /\ ret' = getContent(call.found, call.diffNames, call.files, call.sources)
    /\ pc' = "extracted"
    /\ UNCHANGED <<recipe, opts, store, stages, err, resolvedPullspecs, pkgSources, call>>

ContentInit ==
    /\ recipe = <<>>
    /\ opts = [Args |-> <<>>, Target |-> ""]
    /\ store = <<>>
    /\ pc = "extract"
    /\ stages = <<>>
    /\ err = ""
    /\ resolvedPullspecs = <<>>
    /\ pkgSources = <<>>
    /\ \E k \in 0..MaxMask :
       \E sources \in [1..k -> CopySources], files \in SUBSET ImageFiles,
          diffNames \in SUBSET DiffNames, found \in BOOLEAN :
            call = [found |-> found, diffNames |-> diffNames, files |-> files,
                    sources |-> sources]
    /\ ret = <<>>

ContentNext == GetContent

ContentSpec == ContentInit /\ [][ContentNext]_vars

-----------------------------------------------------------------------------
(* getImageContent step by step: the calls it makes on the store *)

ErrMount == "failed to mount image"
ErrStat == "failed to stat path"
ErrCopy == "failed to copy"

\* the images getImageContent may be given
MountedImages == {"i1", "i2"}

\* what the machine does for one mask entry: what os.Stat says of the path
\* ("missing", "error", a directory, a regular file, or something else) and
\* whether the copy of it fails
SourceOutcomes ==
    [stat : {"missing", "error", "dir", "file", "other"}, copyFails : BOOLEAN]

\* a call on the store, as the store sees it
StoreCall(op, image) == [op |-> op, image |-> image]

\* a return statement with no deferred call
ReturnWithoutDeferred(r, image, e) ==
    [r EXCEPT !.err = e]

\* a return statement of getImageContent after the defer statement: the
\* deferred store.UnmountImage(image.ID, false) runs
ReturnDeferred(r, image, e) ==
    [r EXCEPT !.err = e, !.events = Append(@, StoreCall("unmount", image))]

\* store.MountImage and the defer statement
MountImage ==
    /\ pc = "mount"
    /\ IF call.mountFails
       THEN /\ ret' = [ret EXCEPT !.err = ErrMount]
            /\ pc' = "returned"
       ELSE /\ ret' = [ret EXCEPT !.events = Append(@, StoreCall("mount", call.image))]
            /\ pc' = "copy"
    /\ UNCHANGED <<recipe, opts, store, stages, err, resolvedPullspecs, pkgSources, call>>

\* one pass of the loop over the sources
CopySource ==
    /\ pc = "copy"
    /\ ret.next <= Len(call.outcomes)
    /\ LET o    == call.outcomes[ret.next]
           done == [ret EXCEPT !.next = @ + 1, !.included = Append(@, ret.next)]
       IN  IF o.stat = "missing"
           THEN ret' = [ret EXCEPT !.next = @ + 1] /\ pc' = pc
           ELSE IF o.stat = "error"
           THEN ret' = ReturnDeferred(ret, call.image, ErrStat) /\ pc' = "returned"
           ELSE IF o.stat \in {"dir", "file"} /\ o.copyFails
           THEN ret' = ReturnDeferred(ret, call.image, ErrCopy) /\ pc' = "returned"
           ELSE ret' = done /\ pc' = pc
    /\ UNCHANGED <<recipe, opts, store, stages, err, resolvedPullspecs, pkgSources, call>>

\* the return after the loop
ReturnIncluded ==
    /\ pc = "copy"
    /\ ret.next > Len(call.outcomes)
    /\ ret' = ReturnDeferred(ret, call.image, "")
    /\ pc' = "returned"
    /\ UNCHANGED <<recipe, opts, store, stages, err, resolvedPullspecs, pkgSources, call>>

MountInit ==
    /\ recipe = <<>>
    /\ opts = [Args |-> <<>>, Target |-> ""]
    /\ store = <<>>
    /\ pc = "mount"
    /\ stages = <<>>
    /\ err = ""
    /\ resolvedPullspecs = <<>>
    /\ pkgSources = <<>>
    /\ \E k \in 0..MaxMask :
       \E os \in [1..k -> SourceOutcomes], i \in MountedImages, f \in BOOLEAN :
            call = [image |-> i, mountFails |-> f, outcomes |-> os]
    /\ ret = [events |-> <<>>, included |-> <<>>, err |-> "", next |-> 1]

MountNext == MountImage \/ CopySource \/ ReturnIncluded

MountSpec == MountInit /\ [][MountNext]_vars

-----------------------------------------------------------------------------
(* What the recipe declares, read off the instructions *)

\* the FROM instructions of the recipe, in order
FromInstrs(instrs) == SelectSeq(instrs, LAMBDA x : x.cmd = "from")

\* the name the k-th FROM declares: its AS name, else its position from 0
DeclaredAlias(instrs, k) ==
    LET f == FromInstrs(instrs)[k]
    IN  IF f.name = "" THEN ToString(k - 1) ELSE f.name

\* the stage (counted from 1) the i-th instruction belongs to; 0 in the heading
StageOf(instrs, i) == Cardinality({j \in 1..i : instrs[j].cmd = "from"})

\* the stage a target names: the first stage so named, else the stage at that
\* position; 0 when it names none
TargetStage(instrs, t) ==
    LET n      == Len(FromInstrs(instrs))
        byName == {k \in 1..n : DeclaredAlias(instrs, k) = t}
        byPos  == {k \in 1..n : ToString(k - 1) = t}
    IN  IF byName # {} THEN CHOOSE k \in byName : \A l \in byName : k <= l
        ELSE IF byPos # {} THEN CHOOSE k \in byPos : \A l \in byPos : k <= l
        ELSE 0

\* a COPY with a --from flag
IsFromCopy(x) == x.cmd = "copy" /\ \E i \in DOMAIN x.flags : x.flags[i].key = "from"

\* a COPY from the build context
IsContextCopy(x) == x.cmd = "copy" /\ ~IsFromCopy(x)

\* the i-th instruction is a relative WORKDIR, or a COPY --from to a relative
\* destination, with no absolute WORKDIR before it in its stage
AmbiguousAt(instrs, i) ==
    /\ \/ instrs[i].cmd = "workdir" /\ ~IsAbs(instrs[i].args[1])
       \/ IsFromCopy(instrs[i]) /\ ~IsAbs(instrs[i].args[Len(instrs[i].args)])
    /\ ~\E j \in 1..(i - 1) :
            /\ StageOf(instrs, j) = StageOf(instrs, i)
            /\ instrs[j].cmd = "workdir"
            /\ IsAbs(instrs[j].args[1])

\* the recipe without its i-th instruction
RemoveAt(instrs, i) == SubSeq(instrs, 1, i - 1) \o SubSeq(instrs, i + 1, Len(instrs))

-----------------------------------------------------------------------------
(* Claims about Parse, checked under ParseSpec *)

\* C1: parsed without a target, the recipe yields one stage per FROM, in the
\* order of the FROMs; the last stage, and no other, has the alias FinalStage,
\* and every earlier stage has the name its FROM declares.
C1_OneStagePerFrom ==
    (pc = "parsed" /\ opts.Target = "") =>
        /\ Len(stages) = Len(FromInstrs(recipe))
        /\ \A i \in DOMAIN stages : (stages[i].Alias = FinalStage) <=> (i = Len(stages))
        /\ \A i \in 1..(Len(stages) - 1) : stages[i].Alias = DeclaredAlias(recipe, i)

C1_Witness ==
    /\ pc = "parsed"
    /\ opts.Target = ""
    /\ Len(stages) = 3
    /\ stages[1].Alias = "a"
    /\ stages[2].Alias = "1"

\* C2 as stated: whenever some stage of the recipe holds an ambiguous relative
\* path, Parse fails with AmbiguousRelativePath.
C2_AmbiguousAlwaysFails ==
    (pc # "start" /\ \E i \in DOMAIN recipe : AmbiguousAt(recipe, i)) =>
        err = ErrAmbiguousRelativePath

\* C2, amended: whenever a stage that Parse retains (any stage when no target
\* is given, else a stage up to and including the one the target names) holds
\* a relative WORKDIR, or a COPY --from to a relative destination, before any
\* absolute WORKDIR of that same stage, Parse fails with
\* AmbiguousRelativePath; an absolute WORKDIR of an earlier stage does not count.
C2_AmbiguousInRetainedStageFails ==
    (/\ pc # "start"
     /\ \E i \in DOMAIN recipe :
            /\ AmbiguousAt(recipe, i)
            /\ \/ opts.Target = ""
               \/ StageOf(recipe, i) <= TargetStage(recipe, opts.Target)) =>
        err = ErrAmbiguousRelativePath

C2_Witness ==
    /\ pc = "failed"
    /\ err = ErrAmbiguousRelativePath
    /\ opts.Target = "a"
    /\ \E i \in DOMAIN recipe, j \in DOMAIN recipe :
            /\ j < i
            /\ recipe[j].cmd = "workdir" /\ IsAbs(recipe[j].args[1])
            /\ StageOf(recipe, j) < StageOf(recipe, i)
            /\ IsFromCopy(recipe[i])
            /\ AmbiguousAt(recipe, i)

\* C3: when the target names a stage T, Parse does not fail with
\* TargetNotFound, and a successful Parse returns the stages from the first
\* through T and none declared after T, with T relabelled FinalStage and
\* every earlier stage under its declared name.
C3_TargetTruncates ==
    (pc # "start" /\ opts.Target # "" /\ TargetStage(recipe, opts.Target) # 0) =>
        /\ err # ErrTargetNotFound
        /\ err = "" =>
            /\ Len(stages) = TargetStage(recipe, opts.Target)
            /\ stages[Len(stages)].Alias = FinalStage
            /\ \A i \in 1..(Len(stages) - 1) : stages[i].Alias = DeclaredAlias(recipe, i)

C3_Witness ==
    /\ pc = "parsed"
    /\ opts.Target = "a"
    /\ Len(FromInstrs(recipe)) = 3
    /\ DeclaredAlias(recipe, 1) = "0"
    /\ DeclaredAlias(recipe, 2) = "a"
    /\ Len(stages) = 2
    /\ stages[1].Alias = "0"

\* C4 as stated: a parsed COPY --from is of kind Builder exactly when its
\* substituted from value is the name of a stage declared earlier than the
\* stage that holds the copy, and External otherwise.
C4_BuilderIffEarlierStage ==
    pc = "parsed" =>
        \A i \in DOMAIN stages : \A c \in DOMAIN stages[i].Copies :
            LET cp == stages[i].Copies[c]
            IN  /\ cp.Type \in {CopyTypeBuilder, CopyTypeExternal}
                /\ (cp.Type = CopyTypeBuilder) <=>
                       \E j \in 1..(i - 1) : DeclaredAlias(recipe, j) = cp.From

\* C5: taking a COPY without --from out of the recipe, wherever it stands,
\* changes neither the stages Parse returns nor the error it returns.
C5_ContextCopyIgnored ==
    pc # "start" =>
        \A i \in DOMAIN recipe :
            IsContextCopy(recipe[i]) =>
                ParseResult(RemoveAt(recipe, i), opts) = [err |-> err, stages |-> stages]

C5_Witness ==
    /\ pc = "parsed"
    /\ \E i \in DOMAIN recipe :
            /\ IsContextCopy(recipe[i])
            /\ ~IsAbs(recipe[i].args[Len(recipe[i].args)])
            /\ recipe[i - 1].cmd = "from"

\* the working directory in effect at the i-th instruction: the last WORKDIR
\* before it in its stage, a relative one joined to the one in effect there;
\* empty when the stage has set none
RECURSIVE WorkdirAt(_, _)
WorkdirAt(instrs, i) ==
    LET W == {j \in 1..(i - 1) :
                instrs[j].cmd = "workdir" /\ StageOf(instrs, j) = StageOf(instrs, i)}
    IN  IF W = {} THEN <<>>
        ELSE LET j == CHOOSE k \in W : \A l \in W : l <= k
             IN  IF IsAbs(instrs[j].args[1]) THEN instrs[j].args[1]
                 ELSE Join(WorkdirAt(instrs, j), instrs[j].args[1])

\* the COPY --from instructions of stage s, in order
FromCopiesOf(instrs, s) ==
    SelectSeq([i \in DOMAIN instrs |-> i],
              LAMBDA i : IsFromCopy(instrs[i]) /\ StageOf(instrs, i) = s)

\* a destination that names a directory: it ends with a separator, or its
\* last element is . or ..
DirectoryLike(d) ==
    \/ HasSuffix(d, <<"/">>)
    \/ Elements(d)[Len(Elements(d))] \in { <<".">>, <<".", ".">> }

\* C20: in a successful Parse every Copy destination is absolute: an absolute
\* destination is kept; a relative directory-like one is the working
\* directory joined with it, with a trailing separator unless that is the
\* root; any other relative one is the working directory joined with it, with
\* no trailing separator.
C20_DestinationsAbsolute ==
    pc = "parsed" =>
        \A s \in DOMAIN stages :
            /\ Len(stages[s].Copies) = Len(FromCopiesOf(recipe, s))
            /\ \A c \in DOMAIN stages[s].Copies :
                LET i   == FromCopiesOf(recipe, s)[c]
                    d   == recipe[i].args[Len(recipe[i].args)]
                    j   == Join(WorkdirAt(recipe, i), d)
                    got == stages[s].Copies[c].Destination
                IN  /\ IsAbs(got)
                    /\ IsAbs(d) => got = d
                    /\ (~IsAbs(d) /\ DirectoryLike(d)) =>
                            /\ got = IF j = <<"/">> THEN j ELSE j \o <<"/">>
                            /\ HasSuffix(got, <<"/">>)
                    /\ (~IsAbs(d) /\ ~DirectoryLike(d)) =>
                            /\ got = j
                            /\ ~HasSuffix(got, <<"/">>)

\* a relative directory-like destination that resolves to the root
C20_Witness ==
    /\ pc = "parsed"
    /\ \E s \in DOMAIN stages : \E c \in DOMAIN stages[s].Copies :
            LET i == FromCopiesOf(recipe, s)[c]
            IN  /\ ~IsAbs(recipe[i].args[Len(recipe[i].args)])
                /\ stages[s].Copies[c].Destination = <<"/">>

-----------------------------------------------------------------------------
(* What Scan made of the stages, read off the package sources *)

\* the copies of the final stage
FinalCopies == stages[Len(stages)].Copies

\* the non-final stages of that alias
StagesNamed(alias) == {i \in 1..(Len(stages) - 1) : stages[i].Alias = alias}

\* the package sources that carry the alias and the base image of stage i
BuilderSourceOf(i) ==
    {k \in DOMAIN pkgSources :
        /\ pkgSources[k].alias = stages[i].Alias
        /\ pkgSources[k].pullspec = stages[i].Pullspec}

\* the package sources with no alias, keyed by the image reference ref
ExternalSourcesOf(ref) ==
    {k \in DOMAIN pkgSources : pkgSources[k].alias = "" /\ pkgSources[k].pullspec = ref}

\* some copy of the recipe names stage i in its --from
NamedByACopy(i) ==
    \E j \in DOMAIN stages : \E c \in DOMAIN stages[j].Copies :
        stages[j].Copies[c].From = stages[i].Alias

\* the paths the final stage copies from ref
FinalPathsFrom(ref) ==
    UNION {{FinalCopies[c].Sources[s] : s \in DOMAIN FinalCopies[c].Sources} :
            c \in {d \in DOMAIN FinalCopies : FinalCopies[d].From = ref}}

\* the references resolvePullspecs is to resolve: the base image of every
\* non-final stage and the from of every External copy of a non-final stage
NonFinalRefs ==
    {stages[i].Pullspec : i \in 1..(Len(stages) - 1)} \cup
    UNION {{stages[i].Copies[c].From :
                c \in {d \in DOMAIN stages[i].Copies :
                            stages[i].Copies[d].Type = CopyTypeExternal}} :
            i \in 1..(Len(stages) - 1)}

\* the store has no image of that name, or the name is no canonical reference
Unresolvable(r) == r \notin DOMAIN store \/ r \notin DOMAIN RepositoryOf

\* no copy names the stage that holds it
NoSelfCopy ==
    \A i \in DOMAIN stages : \A c \in DOMAIN stages[i].Copies :
        stages[i].Copies[c].From # stages[i].Alias

\* neither path begins with the other
Unrelated(p, q) == ~HasPrefix(p, q) /\ ~HasPrefix(q, p)

\* b1 -> b2 -> final is an unbroken file chain: the final stage's one copy takes
\* the one path P, not a directory, from stage b2; the one copy of b2 has the
\* destination P and is from the earlier stage b1; no copy of b1 has a
\* destination that touches a source of b2's copy
FileChain(b1, b2) ==
    /\ b1 < b2
    /\ Len(FinalCopies) = 1
    /\ Len(FinalCopies[1].Sources) = 1
    /\ ~HasSuffix(FinalCopies[1].Sources[1], <<"/">>)
    /\ FinalCopies[1].From = stages[b2].Alias
    /\ Len(stages[b2].Copies) = 1
    /\ stages[b2].Copies[1].Destination = FinalCopies[1].Sources[1]
    /\ stages[b2].Copies[1].From = stages[b1].Alias
    /\ \A s \in DOMAIN stages[b2].Copies[1].Sources :
       \A c \in DOMAIN stages[b1].Copies :
            Unrelated(stages[b1].Copies[c].Destination, stages[b2].Copies[1].Sources[s])

-----------------------------------------------------------------------------
(* Claims about getPackageSources and the Scan pipeline, checked under Spec *)

\* C6 as stated, on the stage lists in which no copy names its own stage:
\* whenever getPackageSources has run on the stage list and has not returned
\* an error, its result holds exactly one package source per non-final stage,
\* with that stage's alias and base image reference, and the mask of a stage
\* that no copy names is empty.
C6_OneBuilderSourcePerStage ==
    (pc \in {"sourced", "crashed"} /\ NoSelfCopy) =>
        \A i \in 1..(Len(stages) - 1) :
            /\ Cardinality(BuilderSourceOf(i)) = 1
            /\ ~NamedByACopy(i) =>
                    \A k \in BuilderSourceOf(i) : pkgSources[k].sources = <<>>

\* C7 as stated, on the stage lists in which no copy names its own stage:
\* whenever the final stage copies a directory D (a path that ends with the
\* separator) from a stage S, the result of getPackageSources has D in the
\* mask of S, and has every source of every copy of S to a destination under
\* D in the mask of the stage that copy is from, when that stage has no copy
\* to a destination that touches the source.
C7_DirectoryAttributedWhereCopied ==
    (pc \in {"sourced", "crashed"} /\ NoSelfCopy) =>
        \A c \in DOMAIN FinalCopies : \A s \in DOMAIN FinalCopies[c].Sources :
        \A S \in StagesNamed(FinalCopies[c].From) :
            LET D == FinalCopies[c].Sources[s]
            IN  HasSuffix(D, <<"/">>) =>
                    /\ \E k \in BuilderSourceOf(S) : Contains(pkgSources[k].sources, D)
                    /\ \A b \in DOMAIN stages[S].Copies :
                       \A t \in DOMAIN stages[S].Copies[b].Sources :
                       \A O \in StagesNamed(stages[S].Copies[b].From) :
                            (/\ HasPrefix(stages[S].Copies[b].Destination, D)
                             /\ O # S
                             /\ \A e \in DOMAIN stages[O].Copies :
                                    Unrelated(stages[O].Copies[e].Destination,
                                              stages[S].Copies[b].Sources[t])) =>
                                \E k \in BuilderSourceOf(O) :
                                    Contains(pkgSources[k].sources,
                                             stages[S].Copies[b].Sources[t])

\* C8: on an unbroken file chain b1 -> b2 -> final, getPackageSources returns
\* a result in which the mask of b2 is empty and the mask of b1 holds exactly
\* the sources of b2's copy.
C8_FileChainAttributedToOrigin ==
    \A b1 \in 1..(Len(stages) - 1) : \A b2 \in 1..(Len(stages) - 1) :
        (pc \in {"sourced", "crashed"} /\ FileChain(b1, b2)) =>
            /\ pc = "sourced"
            /\ \A k \in BuilderSourceOf(b2) : pkgSources[k].sources = <<>>
            /\ \A k \in BuilderSourceOf(b1) :
                    pkgSources[k].sources = stages[b2].Copies[1].Sources

C8_Witness ==
    /\ pc = "sourced"
    /\ Len(stages) = 3
    /\ FileChain(1, 2)
    /\ pkgSources[1].sources = <<FileY>>
    /\ pkgSources[2].sources = <<>>

\* C9 as stated: the result of getPackageSources holds, for every image
\* reference that a copy of the final stage names and that is no stage's
\* alias, exactly one package source with no alias and that reference, and
\* its mask holds all the paths the final stage copies from that reference.
C9_OneExternalSourcePerReference ==
    pc = "sourced" =>
        \A c \in DOMAIN FinalCopies :
            StagesNamed(FinalCopies[c].From) = {} =>
                /\ Cardinality(ExternalSourcesOf(FinalCopies[c].From)) = 1
                /\ \A k \in ExternalSourcesOf(FinalCopies[c].From) :
                        {pkgSources[k].sources[n] : n \in DOMAIN pkgSources[k].sources}
                            = FinalPathsFrom(FinalCopies[c].From)

\* C10 as stated, on the recipes whose only copies are the final stage's copies
\* from one image reference R that is no stage's alias, is a canonical
\* reference and is in the store:
\* the pipeline ends with the package sources, among them a package source
\* with no alias keyed by R, with R's digest form, whose mask holds every
\* copied path, and no builder package source holds a copied path.
C10_FinalExternalCopyScans ==
    (/\ pc \in {"failed", "crashed", "sourced"}
     /\ FinalCopies # <<>>
     /\ \A i \in 1..(Len(stages) - 1) : stages[i].Copies = <<>>
     /\ \A c \in DOMAIN FinalCopies :
            /\ FinalCopies[c].From = FinalCopies[1].From
            /\ StagesNamed(FinalCopies[c].From) = {}
            /\ ~Unresolvable(FinalCopies[c].From)) =>
        /\ pc = "sourced"
        /\ \A c \in DOMAIN FinalCopies : \A s \in DOMAIN FinalCopies[c].Sources :
            /\ \E k \in ExternalSourcesOf(FinalCopies[c].From) :
                /\ Contains(pkgSources[k].sources, FinalCopies[c].Sources[s])
                /\ pkgSources[k].digestPullspec =
                        WithDigest(RepositoryOf[FinalCopies[c].From],
                                   store[FinalCopies[c].From])
            /\ \A i \in 1..(Len(stages) - 1) : \A k \in BuilderSourceOf(i) :
                ~Contains(pkgSources[k].sources, FinalCopies[c].Sources[s])

\* a path with a wildcard glyph
IsWildcard(p) == \E n \in DOMAIN p : p[n] = "*"

\* the directory a path lies in, with its trailing separator
DirOf(p) == SubSeq(p, 1, LastSlash(p))

\* C11 as stated: when the final stage's one copy takes a wildcard pattern
\* inside a directory D from stage b2, and the one copy of b2 has the
\* destination D and is from the earlier stage b1, which has no copy that
\* touches its sources, the result of getPackageSources has the copy's
\* sources in the mask of b1 and an empty mask for b2.
C11_WildcardTracedThroughDirectoryCopy ==
    pc = "sourced" =>
        \A b1 \in 1..(Len(stages) - 1) : \A b2 \in 1..(Len(stages) - 1) :
            (/\ b1 < b2
             /\ Len(FinalCopies) = 1
             /\ Len(FinalCopies[1].Sources) = 1
             /\ IsWildcard(FinalCopies[1].Sources[1])
             /\ FinalCopies[1].From = stages[b2].Alias
             /\ Len(stages[b2].Copies) = 1
             /\ stages[b2].Copies[1].Destination = DirOf(FinalCopies[1].Sources[1])
             /\ stages[b2].Copies[1].From = stages[b1].Alias
             /\ \A s \in DOMAIN stages[b2].Copies[1].Sources :
                \A c \in DOMAIN stages[b1].Copies :
                    Unrelated(stages[b1].Copies[c].Destination,
                              stages[b2].Copies[1].Sources[s])) =>
                /\ \A k \in BuilderSourceOf(b2) : pkgSources[k].sources = <<>>
                /\ \A k \in BuilderSourceOf(b1) :
                        pkgSources[k].sources = stages[b2].Copies[1].Sources


\* b1 -> b2 -> final is a chain through a destination that prefixes the path:
\* the final stage's one copy takes the one path P, neither a directory nor
\* a pattern, from stage b2; the one copy of b2 has a destination that is a
\* prefix of P and is
\* from the earlier stage b1; no copy of b1 has a destination that touches a
\* source of b2's copy
PrefixChain(b1, b2) ==
    /\ b1 < b2
    /\ Len(FinalCopies) = 1
    /\ Len(FinalCopies[1].Sources) = 1
    /\ ~HasSuffix(FinalCopies[1].Sources[1], <<"/">>)
    /\ ~IsWildcard(FinalCopies[1].Sources[1])
    /\ FinalCopies[1].From = stages[b2].Alias
    /\ Len(stages[b2].Copies) = 1
    /\ HasPrefix(FinalCopies[1].Sources[1], stages[b2].Copies[1].Destination)
    /\ stages[b2].Copies[1].From = stages[b1].Alias
    /\ \A s \in DOMAIN stages[b2].Copies[1].Sources :
       \A c \in DOMAIN stages[b1].Copies :
            Unrelated(stages[b1].Copies[c].Destination, stages[b2].Copies[1].Sources[s])

\* C21 as stated: when the path P traced in stage b2 is not a directory and a
\* copy of b2 has a destination that is a prefix of P (the directory /a/ for
\* the path /a/x), P is not in the mask of b2 and the sources of that copy
\* are in the mask of the stage b1 the copy is from.
C21_PrefixedPathTracedToOrigin ==
    \A b1 \in 1..(Len(stages) - 1) : \A b2 \in 1..(Len(stages) - 1) :
        (pc = "sourced" /\ PrefixChain(b1, b2)) =>
            /\ \A k \in BuilderSourceOf(b2) :
                    ~Contains(pkgSources[k].sources, FinalCopies[1].Sources[1])
            /\ \A k \in BuilderSourceOf(b1) :
                    pkgSources[k].sources = stages[b2].Copies[1].Sources

\* the trace of the final stage's one path P, not a directory, reaches an
\* external copy: the final stage's one copy takes P from stage b2, and the
\* one copy of b2 has the destination P and a from that is no stage's alias
ReachesExternalCopy(b2) ==
    /\ Len(FinalCopies) = 1
    /\ Len(FinalCopies[1].Sources) = 1
    /\ ~HasSuffix(FinalCopies[1].Sources[1], <<"/">>)
    /\ FinalCopies[1].From = stages[b2].Alias
    /\ Cardinality(StagesNamed(stages[b2].Alias)) = 1
    /\ Len(stages[b2].Copies) = 1
    /\ stages[b2].Copies[1].Destination = FinalCopies[1].Sources[1]
    /\ \A i \in DOMAIN stages : stages[i].Alias # stages[b2].Copies[1].From

\* C22 as stated: when the trace reaches a copy of a non-final stage whose
\* from is no stage's alias, getPackageSources completes without failure and
\* the sources of that copy are in the mask of an external package source
\* with that image reference.
C22_ExternalCopyInsideStageAttributed ==
    \A b2 \in 1..(Len(stages) - 1) :
        (pc \in {"sourced", "crashed"} /\ ReachesExternalCopy(b2)) =>
            /\ pc = "sourced"
            /\ \E k \in ExternalSourcesOf(stages[b2].Copies[1].From) :
                    \A s \in DOMAIN stages[b2].Copies[1].Sources :
                        Contains(pkgSources[k].sources, stages[b2].Copies[1].Sources[s])

\* the loop of Scan over the package sources has run
ScanLoopRan ==
    \/ pc = "scanned"
    \/ pc = "failed" /\ err \in {ErrIO, ErrContent, ErrSyft, ErrRemove}

\* the positions in the log of the calls of that kind for the k-th source
CallsFor(op, k) ==
    {n \in DOMAIN ret.events : ret.events[n] = SourceCall(op, k)}

\* every position of A is before every position of B
Precedes(A, B) == \A m \in A : \A n \in B : m < n

\* C25: the package sources are the non-final stages in recipe order followed
\* by the external sources; Scan finishes with one source before it begins
\* with the next; for every source both extractions are made before either
\* scan, and the records are made after both scans, and only after both
\* extractions and both scans.
C25_BuildersFirstExtractScanTag ==
    ScanLoopRan =>
        /\ \A k \in DOMAIN pkgSources :
                IF k <= Len(stages) - 1
                THEN pkgSources[k].alias = stages[k].Alias /\ pkgSources[k].alias # ""
                ELSE pkgSources[k].alias = ""
        /\ \A n \in 1..(Len(ret.events) - 1) :
                ret.events[n].source <= ret.events[n + 1].source
        /\ \A k \in DOMAIN pkgSources :
                LET extractions == CallsFor("getIntermediateContent", k)
                                        \cup CallsFor("getImageContent", k)
                    scans   == CallsFor("SyftScan intermediate", k)
                                        \cup CallsFor("SyftScan builder", k)
                    records == CallsFor("getPackageMetadata", k)
                IN  /\ Precedes(extractions, scans)
                    /\ Precedes(extractions, records)
                    /\ Precedes(scans, records)
                    /\ records # {} =>
                            \A op \in {"getIntermediateContent", "getImageContent",
                                        "SyftScan intermediate", "SyftScan builder"} :
                                CallsFor(op, k) # {}

\* a scan of two builder sources and an external one, all three with records
C25_Witness ==
    /\ pc = "scanned"
    /\ Len(stages) = 3
    /\ Len(pkgSources) = 3
    /\ \A k \in 1..3 : CallsFor("getPackageMetadata", k) # {}
    /\ Len(ret.Packages) = 6

\* C26 as stated: for a package source with no alias (an external one) no
\* intermediate content is extracted, and no record with an empty alias has
\* the origin type "intermediate".
C26_NoIntermediateForExternal ==
    ScanLoopRan =>
        /\ \A k \in DOMAIN pkgSources :
                pkgSources[k].alias = "" => CallsFor("getIntermediateContent", k) = {}
        /\ \A n \in DOMAIN ret.Packages :
                ret.Packages[n].StageAlias = "" => ret.Packages[n].OriginType # "intermediate"

\* the sources of the copies from that alias, copy after copy, in order
RECURSIVE SourcesFrom(_, _)
SourcesFrom(copies, alias) ==
    IF copies = <<>> THEN <<>>
    ELSE (IF Head(copies).From = alias THEN Head(copies).Sources ELSE <<>>)
         \o SourcesFrom(Tail(copies), alias)

\* stage S has no copy of its own and only the final stage copies from it
OnlyFinalCopiesFrom(S) ==
    /\ stages[S].Copies = <<>>
    /\ StagesNamed(stages[S].Alias) = {S}
    /\ \A i \in 1..(Len(stages) - 1) : \A c \in DOMAIN stages[i].Copies :
            stages[i].Copies[c].From # stages[S].Alias

\* C27: the mask of a stage that has no copy of its own and that only the
\* final stage copies from is the sources of the final stage's copies from it,
\* one entry for every source of every copy in the order of the copies, a path
\* that several copies name as many times as it is named.
C27_MaskKeepsDuplicates ==
    pc = "sourced" =>
        \A S \in 1..(Len(stages) - 1) :
            OnlyFinalCopiesFrom(S) =>
                \A k \in BuilderSourceOf(S) :
                    pkgSources[k].sources = SourcesFrom(FinalCopies, stages[S].Alias)

\* two copies of the final stage take the same directory from the same stage
C27_Witness ==
    /\ pc = "sourced"
    /\ Len(FinalCopies) = 2
    /\ OnlyFinalCopiesFrom(1)
    /\ pkgSources[1].sources = <<DirA, DirA>>

\* C28: getPackageSources never ends in the stack overflow of a trace that
\* calls itself without end, whatever stage the copies of the recipe name,
\* their own stage and the stages declared after it included.
C28_TraceTerminates ==
    ~(pc = "crashed" /\ err = ErrStackOverflow)

\* every copy of the recipe, as the pair of its stage and its position
AllCopies == {<<i, c>> \in (DOMAIN stages) \X (1..MaxCopies) : c \in DOMAIN stages[i].Copies}

\* getPackageSources takes the final stage's copy for a copy from a stage
\* exactly when the parser gave it kind Builder
FinalCopiesAgree ==
    \A c \in DOMAIN FinalCopies :
        FinalCopies[c].Type = "Builder" <=> AliasToStage(stages, FinalCopies[c].From) # NilStage

\* resolvePullspecs has the digest form of the from of every External copy
ExternalCopiesResolved ==
    \A p \in AllCopies :
        stages[p[1]].Copies[p[2]].Type = "External" =>
            stages[p[1]].Copies[p[2]].From \in DOMAIN resolvedPullspecs

\* C29: once resolvePullspecs has returned its map, the two resolvers treat
\* every copy as the parser classified it: the final stage's copy is traced
\* into a stage exactly when its kind is Builder, the from of every copy of
\* kind External has its digest form in the map, and the trace never follows
\* a copy into a stage that does not exist.
C29_ResolversAgreeWithParser ==
    pc \in {"resolved", "sourced", "crashed"} =>
        /\ FinalCopiesAgree
        /\ ExternalCopiesResolved
        /\ err # ErrNilPointer

\* C13: once resolvePullspecs has run, if one of the references it is to
\* resolve cannot be resolved, Scan has failed with PullspecResolve and there
\* is no mapping at all; otherwise the mapping has an entry, the digest form,
\* for every one of these references.
C13_ResolveFailsFast ==
    pc \in {"resolved", "sourced", "failed", "crashed"} =>
        IF \E r \in NonFinalRefs : Unresolvable(r)
        THEN pc = "failed" /\ err = ErrPullspecResolve /\ resolvedPullspecs = <<>>
        ELSE /\ NonFinalRefs \subseteq DOMAIN resolvedPullspecs
             /\ \A r \in NonFinalRefs :
                    resolvedPullspecs[r] = RepositoryOf[r] \o "@" \o store[r]

C13_Witness ==
    /\ pc = "failed"
    /\ resolvedPullspecs = <<>>
    /\ Len(stages) = 2
    /\ Len(stages[1].Copies) = 2
    /\ stages[1].Copies[1].From = "e:1"
    /\ stages[1].Copies[2].From = "b2"
    /\ ~Unresolvable(stages[1].Pullspec)
    /\ ~Unresolvable("e:1")
    /\ "b2" \in DOMAIN store

-----------------------------------------------------------------------------
(* Claims about resolvePullspec, checked under ResolveSpec *)

\* C12 as stated: whenever a reference has resolved, resolving the result
\* again succeeds and returns that same result.
C12_ResolveAgainReturnsSame ==
    pc = "twice" => ret[2] = [err |-> "", resolved |-> ret[1].resolved]

\* C12, amended: a reference r that resolves yields q, the repository name of
\* r with the digest of the image the store holds under r; resolving q again
\* returns q itself whenever the store holds, under the name q, an image of
\* that digest, and fails with PullspecResolve whenever the store holds no
\* image under the name q.
C12_ResolveAgainWhereStoreKnowsDigestName ==
    (pc \in {"once", "twice"} /\ ret[1].err = "") =>
        LET r == call.pullspec
            q == ret[1].resolved
        IN  /\ q = RepositoryOf[r] \o "@" \o store[r]
            /\ pc = "twice" =>
                /\ (q \in DOMAIN store /\ store[q] = store[r]) =>
                        ret[2] = [err |-> "", resolved |-> q]
                /\ q \notin DOMAIN store =>
                        ret[2] = [err |-> ErrPullspecResolve, resolved |-> ""]

C12_Witness ==
    /\ pc = "twice"
    /\ call.pullspec = "e:1"
    /\ ret[1].resolved = "e@sha256:e"
    /\ ret[2] = [err |-> "", resolved |-> "e@sha256:e"]

-----------------------------------------------------------------------------
(* Claims about getLastIntermediateLayer, checked under LayerSpec *)

\* the layers on the parent chain of layer id, id included
RECURSIVE ChainOf(_, _)
ChainOf(layers, id) ==
    IF id \notin DOMAIN layers THEN {}
    ELSE {id} \cup ChainOf(layers, layers[id])

\* the unnamed images, other than one whose top layer is the base layer,
\* whose top layer's parent chain reaches the base layer
IntermediateImages ==
    {i \in DOMAIN call.store.images :
        /\ call.store.images[i].Names = <<>>
        /\ call.store.images[i].TopLayer # call.builderLayer
        /\ call.builderLayer \in ChainOf(call.store.layers, call.store.images[i].TopLayer)}

\* C14 as stated: getLastIntermediateLayer returns no layer exactly when the
\* store has no such image, and when it has one the layer returned is the top
\* layer of one of them.
C14_NoLayerIffNoIntermediateImage ==
    pc = "located" =>
        /\ (ret.layer = "") <=> (IntermediateImages = {})
        /\ ret.layer # "" =>
                \E i \in IntermediateImages : call.store.images[i].TopLayer = ret.layer

\* the number of parent hops from the top layer of image i down to the base
\* layer
DepthOf(i) ==
    Cardinality(ChainOf(call.store.layers, call.store.images[i].TopLayer)
                \ ChainOf(call.store.layers, call.builderLayer))

\* the layer returned is the top layer of an unnamed image whose parent chain
\* reaches the base layer and whose depth no other such image exceeds, and it
\* is not the base layer
ReturnsDeepestCandidate ==
    /\ ret.layer # call.builderLayer
    /\ \E i \in IntermediateImages :
            /\ call.store.images[i].TopLayer = ret.layer
            /\ \A j \in IntermediateImages : DepthOf(j) <= DepthOf(i)

\* C23 as stated: a layer that getLastIntermediateLayer returns is the top
\* layer of an unnamed image of maximal depth among those whose chain reaches
\* the base layer, is not the base layer, and is not the top layer of any
\* named image.
C23_DeepestAndNeverOfNamedImage ==
    (pc = "located" /\ ret.layer # "") =>
        /\ ReturnsDeepestCandidate
        /\ \A n \in DOMAIN call.store.images :
                call.store.images[n].Names # <<>> =>
                    call.store.images[n].TopLayer # ret.layer

\* C23, amended: a layer that getLastIntermediateLayer returns is the top
\* layer of an unnamed image of maximal depth among those whose chain reaches
\* the base layer, and is not the base layer; a named image may have the same
\* top layer.
C23_DeepestCandidate ==
    (pc = "located" /\ ret.layer # "") => ReturnsDeepestCandidate

\* two candidates, the shallower one first in the enumeration
C23_Witness ==
    /\ pc = "located"
    /\ ret.layer # ""
    /\ Len(call.store.images) = 2
    /\ IntermediateImages = {1, 2}
    /\ DepthOf(1) < DepthOf(2)
    /\ ret.layer = call.store.images[2].TopLayer

\* the candidates of maximal depth
DeepestImages ==
    {i \in IntermediateImages : \A j \in IntermediateImages : DepthOf(j) <= DepthOf(i)}

\* C30: when getLastIntermediateLayer returns without error and the store has
\* candidates, the layer returned is the top layer of the candidate of
\* maximal depth that comes first in the order store.Images() lists the
\* images.
C30_FirstOfDeepestInEnumerationOrder ==
    (pc = "located" /\ ret.err = "" /\ IntermediateImages # {}) =>
        LET first == CHOOSE i \in DeepestImages : \A j \in DeepestImages : i <= j
        IN  ret.layer = call.store.images[first].TopLayer

\* two candidates of the same depth on different layers, the one on the
\* later layer listed first
C30_Witness ==
    /\ pc = "located"
    /\ ret.err = ""
    /\ DeepestImages = {1, 2}
    /\ call.store.images[1].TopLayer = LayerIDs[3]
    /\ call.store.images[2].TopLayer = LayerIDs[2]
    /\ ret.layer = LayerIDs[3]

-----------------------------------------------------------------------------
(* Claims about the mask inclusion test, checked under IncludesSpec *)

\* pattern matches name as path.Match does when the only metacharacter is *:
\* a * stands for any run of characters other than the separator
RECURSIVE GlobMatches(_, _)
GlobMatches(pattern, name) ==
    IF pattern = <<>> THEN name = <<>>
    ELSE IF Head(pattern) = "*"
    THEN \/ GlobMatches(Tail(pattern), name)
         \/ /\ name # <<>>
            /\ Head(name) # "/"
            /\ GlobMatches(pattern, Tail(name))
    ELSE /\ name # <<>>
         /\ Head(name) = Head(pattern)
         /\ GlobMatches(Tail(pattern), Tail(name))

\* the candidate path, normalised to start with a separator
Normalised == IF IsAbs(call.path) THEN call.path ELSE <<"/">> \o call.path

\* C15 as stated: the path is included exactly when some mask entry is a
\* literal prefix of the normalised path or matches it as a glob pattern with
\* *; an empty mask includes nothing.
C15_IncludedIffPrefixOrGlob ==
    pc = "included" =>
        ret = (\E n \in DOMAIN call.sources :
                    \/ HasPrefix(Normalised, call.sources[n])
                    \/ GlobMatches(call.sources[n], Normalised))

\* path is the directory entry names or lies beneath it
Beneath(path, entry) ==
    LET dir == IF HasSuffix(entry, <<"/">>) THEN entry ELSE entry \o <<"/">>
    IN  \/ path = entry
        \/ path \o <<"/">> = entry
        \/ HasPrefix(path, dir)

\* C16 as stated: a path is included only if, for some mask entry, it is the
\* entry itself or lies beneath it (or the entry is a pattern that matches
\* it); a path that merely shares leading characters with an entry is
\* excluded, with or without a leading separator.
C16_OutsideMaskExcluded ==
    (pc = "included" /\ ret) =>
        \E n \in DOMAIN call.sources :
            \/ Beneath(Normalised, call.sources[n])
            \/ GlobMatches(call.sources[n], Normalised)

-----------------------------------------------------------------------------
(* Claims about the loop of Scan, checked under ScanLoopSpec *)

\* the sources for which a call inside scanSource failed
FailedSources ==
    {i \in DOMAIN pkgSources : call.outcomes[i].fail # ""}

\* C17 as stated: when extraction or scanning fails for any package source,
\* Scan returns an error and no package list.
C17_FailureAbortsScan ==
    (pc = "scanned" /\ FailedSources # {}) =>
        /\ ret.err # ""
        /\ ret.Packages = <<>>

-----------------------------------------------------------------------------
(* Claims about extraction, checked under ContentSpec *)

\* C19 as stated: every entry written to the builder or the intermediate
\* staging directory has a path, relative to the image root, that passes the
\* inclusion test for the source's mask; with an empty mask both directories
\* stay empty.
C19_OnlyMaskedContentWritten ==
    pc = "extracted" =>
        /\ \A w \in ret.builder \cup ret.intermediate : includes(call.sources, w.origin)
        /\ call.sources = <<>> => (ret.builder = {} /\ ret.intermediate = {})

-----------------------------------------------------------------------------
(* Claims about the calls of getImageContent on the store, checked under MountSpec *)

\* the calls of that kind among the calls made so far
CallsOf(op) == {n \in DOMAIN ret.events : ret.events[n].op = op}

\* C24: until getImageContent returns, a successful mount has been followed
\* by no unmount; when it has returned, the calls it made on the store are
\* the mount of the image followed by one unmount of that same image, on the
\* success path and on every error path, or no call at all when the mount
\* failed.
C24_MountThenOneUnmount ==
    /\ pc = "mount" => ret.events = <<>>
    /\ pc = "copy" => ret.events = <<StoreCall("mount", call.image)>>
    /\ pc = "returned" =>
            IF call.mountFails
            THEN ret.events = <<>> /\ ret.err = ErrMount
            ELSE ret.events = <<StoreCall("mount", call.image),
                                StoreCall("unmount", call.image)>>

\* the mount succeeded, the first source was copied and the copy of the
\* second failed
C24_Witness ==
    /\ pc = "returned"
    /\ ret.err = ErrCopy
    /\ ret.included = <<1>>
    /\ Cardinality(CallsOf("mount")) = 1
    /\ Cardinality(CallsOf("unmount")) = 1

=============================================================================
